---- MODULE Spec2Model ----
(***************************************************************************)
(* Target assignment and loss normalisation of FCOSOutputs3D               *)
(* (adet/modeling/fcos/fcos_outputs3d.py).                                 *)
(*                                                                         *)
(* Tensors are sequences; a (K, G) tensor is a sequence over the K         *)
(* locations of sequences over the G ground-truth boxes.  Indices stored   *)
(* in the state (target_inds, im_inds, fpn_levels) keep the 0-based values *)
(* of the program.  Arithmetic is exact: a quotient is a pair <<n, d>> in  *)
(* lowest terms, so float rounding is not modelled.                        *)
(***************************************************************************)
EXTENDS Integers, Sequences, FiniteSets, TLC

(***************************************************************************)
(* Bounds of the model.                                                    *)
(***************************************************************************)
MaxImages == 2
MaxInstances == 2
MaxWorkers == 2
MaxCalls == 2
MaxPasses == 2

(***************************************************************************)
(* Program constants.                                                      *)
(***************************************************************************)
INF == 100000000
NUM_CLASSES == 2
MOVING_NUM_FG_INIT == 100

(***************************************************************************)
(* Inputs.  A ground-truth instance is a box (x1,y1,z1,x2,y2,z2), a class  *)
(* and the voxels <<d, h, w>> set in its full-resolution bitmask.          *)
(***************************************************************************)
InstA == [box |-> <<0, 0, 0, 4, 4, 4>>, cls |-> 0,
          mask |-> {<<1, 2, 2>>, <<2, 2, 2>>}]
InstB == [box |-> <<0, 0, 0, 4, 4, 4>>, cls |-> 1,
          mask |-> {<<0, 1, 1>>, <<0, 2, 2>>}]
InstC == [box |-> <<0, 0, 0, 5, 4, 4>>, cls |-> 1, mask |-> {}]
InstD == [box |-> <<0, 0, 0, 500, 500, 500>>, cls |-> 0,
          mask |-> {<<3, 2, 2>>}]
InstancePool == {InstA, InstB, InstC, InstD}

\* cfg.MODEL.FCOS: FPN_STRIDES, SIZES_OF_INTEREST, POS_RADIUS (a quotient)
CfgA == [FPN_STRIDES |-> <<2, 4>>, SIZES_OF_INTEREST |-> <<4>>, POS_RADIUS |-> <<3, 2>>]
CfgB == [FPN_STRIDES |-> <<1, 2>>, SIZES_OF_INTEREST |-> <<64>>, POS_RADIUS |-> <<3, 2>>]
CfgPool == {CfgA, CfgB}

\* cfg.MODEL.FCOS: LOSS_NORMALIZER_CLS, BOX_QUALITY, LOSS_WEIGHT_CLS
LossCfgPool ==
    [loss_normalizer_cls : {"moving_fg", "fg", "all"},
     box_quality : {"ctrness", "iou", "giou"},
     loss_weight_cls : {1, 2}]

\* What a worker holds in one fcos_losses call: the labels of its locations,
\* the sum of its centerness targets, and the sums its loss functions return
\* (focal loss, IoU loss, binary cross-entropy), all quotients.
SelfPool ==
    { [labels |-> <<2, 2, 2>>, ctrness_targets_sum |-> <<0, 1>>,
       class_loss |-> <<6, 1>>, loc_loss |-> <<0, 1>>, quality_loss |-> <<0, 1>>],
      [labels |-> <<0, 2, 1>>, ctrness_targets_sum |-> <<3, 2>>,
       class_loss |-> <<4, 1>>, loc_loss |-> <<3, 1>>, quality_loss |-> <<2, 1>>],
      [labels |-> <<>>, ctrness_targets_sum |-> <<0, 1>>,
       class_loss |-> <<0, 1>>, loc_loss |-> <<0, 1>>, quality_loss |-> <<0, 1>>],
      [labels |-> <<1>>, ctrness_targets_sum |-> <<1, 2>>,
       class_loss |-> <<2, 1>>, loc_loss |-> <<1, 1>>, quality_loss |-> <<1, 1>>] }

\* the other workers matter through their labels and centerness sums only
PeerPool ==
    { [labels |-> <<0, 2, 1>>, ctrness_targets_sum |-> <<3, 2>>],
      [labels |-> <<>>, ctrness_targets_sum |-> <<0, 1>>],
      [labels |-> <<1>>, ctrness_targets_sum |-> <<1, 2>>] }

\* the locations of each pyramid level, level order
LOCATIONS == << << <<1, 1, 1>>, <<3, 2, 2>> >>,
                << <<2, 2, 2>>, <<6, 2, 2>> >> >>

VARIABLES
    cfg,                 \* the configuration the object was built from
    center_sample,       \* self.center_sample
    sizes_of_interest,   \* self.sizes_of_interest
    gt_instances,        \* the batch: one record per image
    pc,                  \* position in _get_ground_truth
    size_ranges,         \* loc_to_size_range, one row per location
    im_i,                \* loop index of compute_targets_for_locations
    num_targets,         \* its running instance offset
    labels,              \* image-first results of the loop
    reg_targets,
    target_inds,
    locals,              \* per-image tensors of the last loop iteration
    training_targets,    \* what _get_ground_truth returns
    loss_cfg,            \* loss_normalizer_cls, box_quality, loss_weight_cls
    world_size,          \* get_world_size()
    moving_num_fg,       \* self.moving_num_fg, a quotient
    n_calls,             \* fcos_losses calls made so far
    last,                \* the last fcos_losses call: inputs and outcome
    training,            \* self.training
    icfg,                \* the inference options of cfg.MODEL.FCOS
    preds,               \* per image and level: the head's predictions
    ppc,                 \* position in predict_proposals
    level_i,             \* its loop index over the levels
    nms_self,            \* self.pre_nms_thresh, pre_nms_topk, post_nms_topk
    candidate_inds,      \* per level, per image: the (location, class) candidates
    sampled_boxes,       \* per level, per image: the decoded proposals
    nms_out,             \* per image: what ml_nms3d returned
    results,             \* per image: what select_over_all_levels returns
    model_cfg,           \* the options of cfg.MODEL.CONDINST
    forward_calls,       \* UInst3D.forward calls made so far
    forward_last,        \* the last UInst3D.forward call: inputs and outcome
    serialized,          \* the callers run one forward pass at a time
    passes,              \* per thread: its position in fcos_losses and locals
    update_log           \* num_pos_avg of the fcos_losses calls, in call order

tvars == <<cfg, center_sample, sizes_of_interest, gt_instances, pc, size_ranges,
           im_i, num_targets, labels, reg_targets, target_inds, locals,
           training_targets>>

lvars == <<loss_cfg, world_size, moving_num_fg, n_calls, last>>

pvars == <<training, icfg, preds, ppc, level_i, nms_self, candidate_inds,
           sampled_boxes, nms_out, results>>

mvars == <<model_cfg, forward_calls, forward_last>>

cvars == <<serialized, passes, update_log>>

vars == <<tvars, lvars, pvars, mvars, cvars>>

(***************************************************************************)
(* Helpers on sequences and quotients.                                     *)
(***************************************************************************)
RECURSIVE GCD(_, _)
GCD(a, b) == IF b = 0 THEN a ELSE GCD(b, a % b)

Abs(a) == IF a < 0 THEN -a ELSE a

\* the quotient n / d, d > 0, in lowest terms
Quot(n, d) ==
    LET g == GCD(Abs(n), d) IN
    IF n = 0 THEN <<0, 1>> ELSE <<n \div g, d \div g>>

QAdd(a, b) == Quot(a[1] * b[2] + b[1] * a[2], a[2] * b[2])
QMul(a, b) == Quot(a[1] * b[1], a[2] * b[2])
\* a / b for b > 0
QDiv(a, b) == Quot(a[1] * b[2], a[2] * b[1])
\* Python max(a, b): b only when it is the larger
QMax(a, b) == IF b[1] * a[2] > a[1] * b[2] THEN b ELSE a
QInt(n) == <<n, 1>>

RECURSIVE QSum(_)
QSum(qs) == IF qs = <<>> THEN QInt(0) ELSE QAdd(Head(qs), QSum(Tail(qs)))

RECURSIVE Cat(_)
Cat(ss) == IF ss = <<>> THEN <<>> ELSE Head(ss) \o Cat(Tail(ss))

RECURSIVE SumSeq(_)
SumSeq(s) == IF s = <<>> THEN 0 ELSE Head(s) + SumSeq(Tail(s))

RECURSIVE SumCoord(_, _)
SumCoord(S, ax) ==
    IF S = {} THEN 0
    ELSE LET v == CHOOSE u \in S : TRUE IN v[ax] + SumCoord(S \ {v}, ax)

Max2(a, b) == IF a > b THEN a ELSE b
Min2(a, b) == IF a < b THEN a ELSE b

MinOf(v) == CHOOSE m \in {v[i] : i \in DOMAIN v} : \A i \in DOMAIN v : m <= v[i]
MaxOf(v) == CHOOSE m \in {v[i] : i \in DOMAIN v} : \A i \in DOMAIN v : m >= v[i]

\* torch.min(dim=1) index: the first position of the minimal value
ArgMin(v) == CHOOSE i \in DOMAIN v :
                 /\ v[i] = MinOf(v)
                 /\ \A j \in DOMAIN v : v[j] = MinOf(v) => i <= j

Zeros6 == <<0, 0, 0, 0, 0, 0>>

(***************************************************************************)
(* FCOSOutputs3D.__init__: the size-of-interest ranges.                    *)
(***************************************************************************)
RECURSIVE SoiLoop(_, _)
SoiLoop(sizes, prev_size) ==
    IF sizes = <<>> THEN << <<prev_size, INF>> >>
    ELSE << <<prev_size, Head(sizes)>> >> \o SoiLoop(Tail(sizes), Head(sizes))

BuildSizesOfInterest(sizes) == SoiLoop(sizes, -1)

(***************************************************************************)
(* Boxes3D.area                                                            *)
(***************************************************************************)
Area(box) == (box[4] - box[1]) * (box[5] - box[2]) * (box[6] - box[3])

(***************************************************************************)
(* _get_ground_truth, first part: num_loc_list, loc_to_size_range and the  *)
(* concatenated locations.                                                 *)
(***************************************************************************)
NumLocList == [l \in DOMAIN LOCATIONS |-> Len(LOCATIONS[l])]

AllLocations == Cat(LOCATIONS)

NumLoc == Len(AllLocations)

LocToSizeRange(soi) ==
    Cat([l \in DOMAIN LOCATIONS |-> [j \in 1..NumLocList[l] |-> soi[l]]])

\* the pyramid level (1-based) whose slice beg:end holds row k
RECURSIVE LevelFrom(_, _, _)
LevelFrom(k, level, beg) ==
    IF k <= beg + NumLocList[level] THEN level
    ELSE LevelFrom(k, level + 1, beg + NumLocList[level])

LevelOfRow(k) == LevelFrom(k, 1, 0)

(***************************************************************************)
(* compute_targets_for_locations: face distances l, t, n, r, b, f.         *)
(***************************************************************************)
RegTargetsPerIm(loc, box) ==
    << loc[1] - box[1], loc[2] - box[2], loc[3] - box[3],
       box[4] - loc[1], box[5] - loc[2], box[6] - loc[3] >>

(***************************************************************************)
(* get_sample_region.  The mass centre of a bitmask is m / m00 per axis;   *)
(* m00 is clamped at 1e-6, so an empty bitmask has centre 0.               *)
(***************************************************************************)
M00(mask) == IF mask = {} THEN 1 ELSE Cardinality(mask)

\* <<center_x, center_y, center_z>> numerators over M00: x with depth
\* (m11), y with height (m01), z with width (m10)
CenterNum(mask) == <<SumCoord(mask, 1), SumCoord(mask, 2), SumCoord(mask, 3)>>

\* center_gt of one box for one level, every entry scaled by q = m00 * rd
CenterGt(box, mask, stride, radius) ==
    LET m00 == M00(mask)
        c   == CenterNum(mask)
        q   == m00 * radius[2]
        sr  == stride * radius[1] * m00
        lo(a) == Max2(c[a] * radius[2] - sr, box[a] * q)
        hi(a) == Min2(c[a] * radius[2] + sr, box[a + 3] * q)
    IN [q |-> q, gt |-> <<lo(1), lo(2), lo(3), hi(1), hi(2), hi(3)>>]

InsideGtBboxMask(loc, box, mask, stride, radius) ==
    LET cg == CenterGt(box, mask, stride, radius)
        center_bbox ==
            << loc[1] * cg.q - cg.gt[1], loc[2] * cg.q - cg.gt[2],
               loc[3] * cg.q - cg.gt[3], cg.gt[4] - loc[1] * cg.q,
               cg.gt[5] - loc[2] * cg.q, cg.gt[6] - loc[3] * cg.q >>
    IN MinOf(center_bbox) > 0

\* the branch with bitmasks, returning early only when there is no box
SampleRegionOfBitmasks_NoGtOnly(im, strides, radius) ==
    LET G == Len(im.gt_boxes) IN
    [raised |-> FALSE,
     mask |-> [k \in 1..NumLoc |-> [g \in 1..G |->
                 InsideGtBboxMask(AllLocations[k], im.gt_boxes[g],
                                  im.gt_bitmasks_full[g],
                                  strides[LevelOfRow(k)], radius)]]]

\* the branch with bitmasks: the (K, G) mask.  The early return gives a
\* (K,) tensor of zeros, which as an index clears whole rows: every entry
\* of the (K, G) mask is FALSE.
SampleRegionOfBitmasks(im, strides, radius) ==
    LET G == Len(im.gt_boxes) IN
    IF G = 0 \/ NumLoc * CenterNum(im.gt_bitmasks_full[1])[1] = 0
    THEN [raised |-> FALSE,
          mask |-> [k \in 1..NumLoc |-> [g \in 1..G |-> FALSE]]]
    ELSE [raised |-> FALSE,
          mask |-> [k \in 1..NumLoc |-> [g \in 1..G |->
                      InsideGtBboxMask(AllLocations[k], im.gt_boxes[g],
                                       im.gt_bitmasks_full[g],
                                       strides[LevelOfRow(k)], radius)]]]

\* get_sample_region with the box centre standing in for a missing bitmask
get_sample_region_BoxCenter(im, strides, radius) ==
    LET G == Len(im.gt_boxes)
        ends(g) == {<<im.gt_boxes[g][1], im.gt_boxes[g][2], im.gt_boxes[g][3]>>,
                    <<im.gt_boxes[g][4], im.gt_boxes[g][5], im.gt_boxes[g][6]>>}
    IN IF im.has_bitmasks THEN SampleRegionOfBitmasks(im, strides, radius)
       ELSE [raised |-> FALSE,
             mask |-> [k \in 1..NumLoc |-> [g \in 1..G |->
                         InsideGtBboxMask(AllLocations[k], im.gt_boxes[g], ends(g),
                                          strides[LevelOfRow(k)], radius)]]]

\* raised: the branch without bitmasks raises
get_sample_region(im, strides, radius) ==
    IF ~im.has_bitmasks
    THEN [raised |-> TRUE, mask |-> <<>>]
    ELSE SampleRegionOfBitmasks(im, strides, radius)

(***************************************************************************)
(* compute_targets_for_locations: one image.                               *)
(***************************************************************************)
IsInBoxesPlain(im) ==
    [k \in 1..NumLoc |-> [g \in 1..Len(im.gt_boxes) |->
        MinOf(RegTargetsPerIm(AllLocations[k], im.gt_boxes[g])) > 0]]

\* is_cared_in_the_level with the upper end of the range excluded
IsCaredInTheLevel_Strict(im, ranges) ==
    [k \in 1..NumLoc |-> [g \in 1..Len(im.gt_boxes) |->
        LET m == MaxOf(RegTargetsPerIm(AllLocations[k], im.gt_boxes[g])) IN
        m >= ranges[k][1] /\ m < ranges[k][2]]]

IsCaredInTheLevel(im, ranges) ==
    [k \in 1..NumLoc |-> [g \in 1..Len(im.gt_boxes) |->
        LET m == MaxOf(RegTargetsPerIm(AllLocations[k], im.gt_boxes[g])) IN
        m >= ranges[k][1] /\ m <= ranges[k][2]]]

LocationsToGtArea(im, is_in_boxes, is_cared) ==
    [k \in 1..NumLoc |-> [g \in 1..Len(im.gt_boxes) |->
        IF ~is_in_boxes[k][g] \/ ~is_cared[k][g]
        THEN INF ELSE Area(im.gt_boxes[g])]]

\* the targets with the indices left local to the image
TargetsPerIm_LocalInds(im, is_in_boxes, is_cared, offset) ==
    LET area == LocationsToGtArea(im, is_in_boxes, is_cared)
        inds == [k \in 1..NumLoc |-> ArgMin(area[k])]
    IN [ labels |-> [k \in 1..NumLoc |->
                        IF MinOf(area[k]) = INF THEN NUM_CLASSES
                        ELSE im.gt_classes[inds[k]]],
         reg_targets |-> [k \in 1..NumLoc |->
                        RegTargetsPerIm(AllLocations[k], im.gt_boxes[inds[k]])],
         target_inds |-> [k \in 1..NumLoc |-> inds[k] - 1] ]

\* the targets of an image with boxes, given its candidate mask
TargetsPerIm(im, is_in_boxes, is_cared, offset) ==
    LET area == LocationsToGtArea(im, is_in_boxes, is_cared)
        inds == [k \in 1..NumLoc |-> ArgMin(area[k])]
    IN [ labels |-> [k \in 1..NumLoc |->
                        IF MinOf(area[k]) = INF THEN NUM_CLASSES
                        ELSE im.gt_classes[inds[k]]],
         reg_targets |-> [k \in 1..NumLoc |->
                        RegTargetsPerIm(AllLocations[k], im.gt_boxes[inds[k]])],
         target_inds |-> [k \in 1..NumLoc |-> (inds[k] - 1) + offset] ]

\* the no-gt targets with the labels left at zero
NoGtTargets_ZeroLabels ==
    [ labels |-> [k \in 1..NumLoc |-> 0],
      reg_targets |-> [k \in 1..NumLoc |-> Zeros6],
      target_inds |-> [k \in 1..NumLoc |-> 0 - 1] ]

\* the targets of an image without boxes
NoGtTargets ==
    [ labels |-> [k \in 1..NumLoc |-> 0 + NUM_CLASSES],
      reg_targets |-> [k \in 1..NumLoc |-> Zeros6],
      target_inds |-> [k \in 1..NumLoc |-> 0 - 1] ]

(***************************************************************************)
(* _transpose and the rest of _get_ground_truth.                           *)
(***************************************************************************)
\* torch.split(t, num_loc_list): the chunk of level l
Chunk(t, l) ==
    LET beg == SumSeq(SubSeq(NumLocList, 1, l - 1)) IN
    SubSeq(t, beg + 1, beg + NumLocList[l])

\* the regrouping with the images of a level concatenated last image first
Transpose_LastImageFirst(image_first) ==
    [l \in DOMAIN NumLocList |->
        Cat([i \in DOMAIN image_first |->
                Chunk(image_first[Len(image_first) + 1 - i], l)])]

\* image-first list -> level-first list
Transpose(image_first) ==
    [l \in DOMAIN NumLocList |->
        Cat([i \in DOMAIN image_first |-> Chunk(image_first[i], l)])]

\* the normalisation with the first level's stride on every level
NormalizeRegTargets_FirstStride(level_first, strides) ==
    [l \in DOMAIN level_first |->
        [p \in DOMAIN level_first[l] |->
            [a \in 1..6 |-> Quot(level_first[l][p][a], strides[1])]]]

NormalizeRegTargets(level_first, strides) ==
    [l \in DOMAIN level_first |->
        [p \in DOMAIN level_first[l] |->
            [a \in 1..6 |-> Quot(level_first[l][p][a], strides[l])]]]

GroundTruth(lab, reg, inds, strides) ==
    LET N == Len(lab)
        locs == Transpose([i \in 1..N |-> AllLocations])
    IN [ labels |-> Transpose(lab),
         reg_targets |-> NormalizeRegTargets(Transpose(reg), strides),
         target_inds |-> Transpose(inds),
         locations |-> locs,
         im_inds |-> Transpose([i \in 1..N |-> [k \in 1..NumLoc |-> i - 1]]),
         fpn_levels |-> [l \in DOMAIN locs |->
                            [p \in DOMAIN locs[l] |-> l - 1]] ]

\* predict_proposals and UInst3D.forward not called
InferenceIdle ==
    /\ training = FALSE
    /\ icfg = <<>>
    /\ preds = <<>>
    /\ ppc = "idle"
    /\ level_i = 0
    /\ nms_self = <<>>
    /\ candidate_inds = <<>>
    /\ sampled_boxes = <<>>
    /\ nms_out = <<>>
    /\ results = <<>>

\* no thread is inside fcos_losses
PassesIdle ==
    /\ serialized = TRUE
    /\ passes = <<>>
    /\ update_log = <<>>

ModelIdle ==
    /\ model_cfg = <<>>
    /\ forward_calls = 0
    /\ forward_last = [status |-> "none"]

NoTargets == [labels |-> <<>>, reg_targets |-> <<>>, target_inds |-> <<>>,
              locations |-> <<>>, im_inds |-> <<>>, fpn_levels |-> <<>>]

NoLocals == [im |-> 0, is_in_boxes |-> <<>>, is_cared_in_the_level |-> <<>>]

(***************************************************************************)
(* fcos_losses: the normalisers.  `workers` holds what every worker has in *)
(* the call, this worker first.                                            *)
(***************************************************************************)
NoLosses == <<>>

NoCall == [status |-> "none", workers |-> <<>>, reg_pred_shape |-> <<>>,
           num_pos_avg |-> <<0, 1>>, cls_normalizer |-> <<0, 1>>,
           loss_denorm |-> <<0, 1>>, losses |-> NoLosses]

\* adet.utils.comm.reduce_mean: the all-worker sum over the world size
reduce_mean(xs) == QDiv(QSum(xs), QInt(Len(xs)))

\* pos_inds = nonzero(labels != num_classes); num_pos_local = its length
NumPosLocal(lab) == Cardinality({p \in DOMAIN lab : lab[p] # NUM_CLASSES})

\* num_pos_avg from this worker's count alone
NumPosAvg_Local(workers) ==
    QMax(QInt(NumPosLocal(workers[1].labels)), QInt(1))

NumPosAvg(workers) ==
    QMax(reduce_mean([w \in DOMAIN workers |->
                         QInt(NumPosLocal(workers[w].labels))]), QInt(1))

NumSamplesAvg(workers) ==
    QMax(reduce_mean([w \in DOMAIN workers |->
                         QInt(Len(workers[w].labels))]), QInt(1))

LossDenorm(workers) ==
    QMax(reduce_mean([w \in DOMAIN workers |-> workers[w].ctrness_targets_sum]),
         <<1, 1000000>>)

moving_num_fg_momentum == <<9, 10>>

MovingNumFg(m, num_pos_avg) ==
    QAdd(QMul(moving_num_fg_momentum, m),
         QMul(QAdd(QInt(1), QMul(QInt(-1), moving_num_fg_momentum)), num_pos_avg))

\* the moving average that an "fg" or "all" call advances as well
ClsNormalizer_AlwaysMoving(mode, m, workers) ==
    IF mode = "moving_fg"
    THEN [moving |-> MovingNumFg(m, NumPosAvg(workers)),
          normalizer |-> MovingNumFg(m, NumPosAvg(workers))]
    ELSE IF mode = "fg"
    THEN [moving |-> MovingNumFg(m, NumPosAvg(workers)),
          normalizer |-> NumPosAvg(workers)]
    ELSE [moving |-> MovingNumFg(m, NumPosAvg(workers)),
          normalizer |-> NumSamplesAvg(workers)]

\* the branch on loss_normalizer_cls: the new moving_num_fg and the divisor
ClsNormalizer(mode, m, workers) ==
    IF mode = "moving_fg"
    THEN [moving |-> MovingNumFg(m, NumPosAvg(workers)),
          normalizer |-> MovingNumFg(m, NumPosAvg(workers))]
    ELSE IF mode = "fg"
    THEN [moving |-> m, normalizer |-> NumPosAvg(workers)]
    ELSE [moving |-> m, normalizer |-> NumSamplesAvg(workers)]

ClsLoss(class_loss, normalizer, weight) ==
    QMul(QDiv(class_loss, normalizer), QInt(weight))

(***************************************************************************)
(* The batches the model draws.                                            *)
(***************************************************************************)
InstanceSeqs ==
    UNION { {s \in [1..n -> InstancePool] :
                \A i, j \in 1..n : s[i] = s[j] => i = j} : n \in 0..MaxInstances }

ImageOf(s, hb) ==
    [ gt_boxes |-> [g \in DOMAIN s |-> s[g].box],
      gt_classes |-> [g \in DOMAIN s |-> s[g].cls],
      has_bitmasks |-> hb,
      gt_bitmasks_full |-> [g \in DOMAIN s |-> s[g].mask] ]

Batches(cs) ==
    UNION { { [i \in 1..m |-> ImageOf(b[i], hb[i])] :
                b \in {c \in [1..m -> InstanceSeqs] :
                          SumSeq([i \in 1..m |-> Len(c[i])]) <= MaxInstances},
                hb \in [1..m -> IF cs THEN BOOLEAN ELSE {TRUE}] } :
            m \in 1..MaxImages }

(***************************************************************************)
(* Target assignment as a state machine.                                   *)
(***************************************************************************)
TInit ==
    /\ cfg \in CfgPool
    /\ center_sample \in BOOLEAN
    /\ sizes_of_interest = BuildSizesOfInterest(cfg.SIZES_OF_INTEREST)
    /\ gt_instances \in Batches(center_sample)
    /\ pc = "start"
    /\ size_ranges = <<>>
    /\ im_i = 0
    /\ num_targets = 0
    /\ labels = <<>>
    /\ reg_targets = <<>>
    /\ target_inds = <<>>
    /\ locals = NoLocals
    /\ training_targets = NoTargets
    /\ loss_cfg = [loss_normalizer_cls |-> "moving_fg", box_quality |-> "ctrness",
                   loss_weight_cls |-> 1]
    /\ world_size = 1
    /\ moving_num_fg = QInt(MOVING_NUM_FG_INIT)
    /\ n_calls = 0
    /\ last = NoCall
    /\ InferenceIdle
    /\ ModelIdle
    /\ PassesIdle

\* _get_ground_truth up to the call of compute_targets_for_locations
GetGroundTruthBegin ==
    /\ pc = "start"
    /\ size_ranges' = LocToSizeRange(sizes_of_interest)
    /\ pc' = "loop"
    /\ UNCHANGED <<cfg, center_sample, sizes_of_interest, gt_instances, im_i,
                   num_targets, labels, reg_targets, target_inds, locals,
                   training_targets,
                   lvars, pvars, mvars, cvars>>

CurrentIm == gt_instances[im_i + 1]

\* loop iteration, branch "no gt"
ComputeTargetsNoGt ==
    /\ pc = "loop"
    /\ im_i < Len(gt_instances)
    /\ Len(CurrentIm.gt_boxes) = 0
    /\ labels' = Append(labels, NoGtTargets.labels)
    /\ reg_targets' = Append(reg_targets, NoGtTargets.reg_targets)
    /\ target_inds' = Append(target_inds, NoGtTargets.target_inds)
    /\ im_i' = im_i + 1
    /\ UNCHANGED <<cfg, center_sample, sizes_of_interest, gt_instances, pc,
                   size_ranges, num_targets, locals, training_targets,
                   lvars, pvars, mvars, cvars>>

\* the loop iteration with labels_per_im a view of gt_classes: the background
\* relabelling writes through to the ground truth
ComputeTargetsPerIm_WriteThrough ==
    /\ pc = "loop"
    /\ im_i < Len(gt_instances)
    /\ Len(CurrentIm.gt_boxes) > 0
    /\ LET region == IF center_sample
                     THEN get_sample_region(CurrentIm, cfg.FPN_STRIDES,
                                            cfg.POS_RADIUS)
                     ELSE [raised |-> FALSE, mask |-> IsInBoxesPlain(CurrentIm)]
           cared == IsCaredInTheLevel(CurrentIm, size_ranges)
       IN /\ ~region.raised
          /\ LET t == TargetsPerIm(CurrentIm, region.mask, cared, num_targets)
             IN /\ labels' = Append(labels, t.labels)
                /\ reg_targets' = Append(reg_targets, t.reg_targets)
                /\ target_inds' = Append(target_inds, t.target_inds)
                /\ gt_instances' =
                      [gt_instances EXCEPT ![im_i + 1].gt_classes =
                          [g \in DOMAIN @ |->
                              IF \E k \in 1..NumLoc :
                                    /\ t.target_inds[k] - num_targets + 1 = g
                                    /\ t.labels[k] = NUM_CLASSES
                              THEN NUM_CLASSES ELSE @[g]]]
          /\ locals' = [im |-> im_i + 1, is_in_boxes |-> region.mask,
                        is_cared_in_the_level |-> cared]
    /\ num_targets' = num_targets + Len(CurrentIm.gt_boxes)
    /\ im_i' = im_i + 1
    /\ UNCHANGED <<cfg, center_sample, sizes_of_interest, pc,
                   size_ranges, training_targets,
                   lvars, pvars, mvars, cvars>>

\* loop iteration of an image with boxes that completes
ComputeTargetsPerIm ==
    /\ pc = "loop"
    /\ im_i < Len(gt_instances)
    /\ Len(CurrentIm.gt_boxes) > 0
    /\ LET region == IF center_sample
                     THEN get_sample_region(CurrentIm, cfg.FPN_STRIDES,
                                            cfg.POS_RADIUS)
                     ELSE [raised |-> FALSE, mask |-> IsInBoxesPlain(CurrentIm)]
           cared == IsCaredInTheLevel(CurrentIm, size_ranges)
       IN /\ ~region.raised
          /\ LET t == TargetsPerIm(CurrentIm, region.mask, cared, num_targets)
             IN /\ labels' = Append(labels, t.labels)
                /\ reg_targets' = Append(reg_targets, t.reg_targets)
                /\ target_inds' = Append(target_inds, t.target_inds)
          /\ locals' = [im |-> im_i + 1, is_in_boxes |-> region.mask,
                        is_cared_in_the_level |-> cared]
    /\ num_targets' = num_targets + Len(CurrentIm.gt_boxes)
    /\ im_i' = im_i + 1
    /\ UNCHANGED <<cfg, center_sample, sizes_of_interest, gt_instances, pc,
                   size_ranges, training_targets,
                   lvars, pvars, mvars, cvars>>

\* loop iteration in which get_sample_region raises
ComputeTargetsRaise ==
    /\ pc = "loop"
    /\ im_i < Len(gt_instances)
    /\ Len(CurrentIm.gt_boxes) > 0
    /\ center_sample
    /\ get_sample_region(CurrentIm, cfg.FPN_STRIDES, cfg.POS_RADIUS).raised
    /\ pc' = "error"
    /\ UNCHANGED <<cfg, center_sample, sizes_of_interest, gt_instances,
                   size_ranges, im_i, num_targets, labels, reg_targets,
                   target_inds, locals, training_targets,
                   lvars, pvars, mvars, cvars>>

\* the loop ends; _get_ground_truth transposes, normalises and returns
GetGroundTruthEnd ==
    /\ pc = "loop"
    /\ im_i = Len(gt_instances)
    /\ training_targets' = GroundTruth(labels, reg_targets, target_inds,
                                       cfg.FPN_STRIDES)
    /\ pc' = "done"
    /\ UNCHANGED <<cfg, center_sample, sizes_of_interest, gt_instances,
                   size_ranges, im_i, num_targets, labels, reg_targets,
                   target_inds, locals,
                   lvars, pvars, mvars, cvars>>

TNext ==
    \/ GetGroundTruthBegin
    \/ ComputeTargetsNoGt
    \/ ComputeTargetsPerIm
    \/ ComputeTargetsRaise
    \/ GetGroundTruthEnd

SpecTargets == TInit /\ [][TNext]_vars

(***************************************************************************)
(* fcos_losses as a state machine: calls on one object, one after another. *)
(* logits_pred is reshaped to num_classes columns by losses(), so the      *)
(* assertion on the class count holds.                                     *)
(***************************************************************************)
LInit ==
    /\ cfg = CfgA
    /\ center_sample = FALSE
    /\ sizes_of_interest = BuildSizesOfInterest(CfgA.SIZES_OF_INTEREST)
    /\ gt_instances = <<>>
    /\ pc = "idle"
    /\ size_ranges = <<>>
    /\ im_i = 0
    /\ num_targets = 0
    /\ labels = <<>>
    /\ reg_targets = <<>>
    /\ target_inds = <<>>
    /\ locals = NoLocals
    /\ training_targets = NoTargets
    /\ loss_cfg \in LossCfgPool
    /\ world_size \in 1..MaxWorkers
    /\ moving_num_fg = QInt(MOVING_NUM_FG_INIT)
    /\ n_calls = 0
    /\ last = NoCall
    /\ InferenceIdle
    /\ ModelIdle
    /\ PassesIdle

\* the inputs of one call: what every worker holds, this worker first
CallInputs ==
    {ws \in [1..world_size -> SelfPool \cup PeerPool] :
        /\ ws[1] \in SelfPool
        /\ \A w \in 2..world_size : ws[w] \in PeerPool}

RegTargetsShape(workers) == <<Len(workers[1].labels), 6>>

RegPredShapes(workers) ==
    {<<Len(workers[1].labels), 6>>, <<Len(workers[1].labels) + 1, 6>>}

\* the shape assertion placed after the classification loss
FcosLossesAssert_Late(workers, shape) ==
    /\ n_calls < MaxCalls
    /\ shape # RegTargetsShape(workers)
    /\ LET c == ClsNormalizer(loss_cfg.loss_normalizer_cls, moving_num_fg, workers)
       IN /\ moving_num_fg' = c.moving
          /\ last' = [NoCall EXCEPT !.status = "AssertionError",
                                    !.workers = workers,
                                    !.reg_pred_shape = shape,
                                    !.cls_normalizer = c.normalizer]
    /\ n_calls' = n_calls + 1
    /\ UNCHANGED <<tvars, pvars, mvars, cvars, loss_cfg, world_size>>

\* assert instances.reg_pred.shape == instances.reg_targets.shape fails
FcosLossesAssert(workers, shape) ==
    /\ n_calls < MaxCalls
    /\ shape # RegTargetsShape(workers)
    /\ last' = [NoCall EXCEPT !.status = "AssertionError", !.workers = workers,
                              !.reg_pred_shape = shape]
    /\ n_calls' = n_calls + 1
    /\ UNCHANGED <<tvars, pvars, mvars, cvars, loss_cfg, world_size, moving_num_fg>>

FcosLossesCtrness(workers, shape) ==
    /\ n_calls < MaxCalls
    /\ shape = RegTargetsShape(workers)
    /\ loss_cfg.box_quality = "ctrness"
    /\ LET c == ClsNormalizer(loss_cfg.loss_normalizer_cls, moving_num_fg, workers)
           num_pos_avg == NumPosAvg(workers)
           loss_denorm == LossDenorm(workers)
       IN /\ moving_num_fg' = c.moving
          /\ last' = [status |-> "ok", workers |-> workers, reg_pred_shape |-> shape,
                      num_pos_avg |-> num_pos_avg,
                      cls_normalizer |-> c.normalizer,
                      loss_denorm |-> loss_denorm,
                      losses |->
                          [loss_fcos_cls |-> ClsLoss(workers[1].class_loss,
                                                     c.normalizer,
                                                     loss_cfg.loss_weight_cls),
                           loss_fcos_loc |-> QDiv(workers[1].loc_loss, loss_denorm),
                           loss_fcos_ctr |-> QDiv(workers[1].quality_loss,
                                                  num_pos_avg)]]
    /\ n_calls' = n_calls + 1
    /\ UNCHANGED <<tvars, pvars, mvars, cvars, loss_cfg, world_size>>

FcosLossesIou(workers, shape) ==
    /\ n_calls < MaxCalls
    /\ shape = RegTargetsShape(workers)
    /\ loss_cfg.box_quality = "iou"
    /\ LET c == ClsNormalizer(loss_cfg.loss_normalizer_cls, moving_num_fg, workers)
           num_pos_avg == NumPosAvg(workers)
       IN /\ moving_num_fg' = c.moving
          /\ last' = [status |-> "ok", workers |-> workers, reg_pred_shape |-> shape,
                      num_pos_avg |-> num_pos_avg,
                      cls_normalizer |-> c.normalizer,
                      loss_denorm |-> <<0, 1>>,
                      losses |->
                          [loss_fcos_cls |-> ClsLoss(workers[1].class_loss,
                                                     c.normalizer,
                                                     loss_cfg.loss_weight_cls),
                           loss_fcos_loc |-> QDiv(workers[1].loc_loss, num_pos_avg),
                           loss_fcos_iou |-> QDiv(workers[1].quality_loss,
                                                  num_pos_avg)]]
    /\ n_calls' = n_calls + 1
    /\ UNCHANGED <<tvars, pvars, mvars, cvars, loss_cfg, world_size>>

\* an unknown box_quality that returns the classification loss alone
FcosLossesNotImplemented_Default(workers, shape) ==
    /\ n_calls < MaxCalls
    /\ shape = RegTargetsShape(workers)
    /\ loss_cfg.box_quality \notin {"ctrness", "iou"}
    /\ LET c == ClsNormalizer(loss_cfg.loss_normalizer_cls, moving_num_fg, workers)
       IN /\ moving_num_fg' = c.moving
          /\ last' = [status |-> "ok", workers |-> workers, reg_pred_shape |-> shape,
                      num_pos_avg |-> NumPosAvg(workers),
                      cls_normalizer |-> c.normalizer,
                      loss_denorm |-> <<0, 1>>,
                      losses |->
                          [loss_fcos_cls |-> ClsLoss(workers[1].class_loss,
                                                     c.normalizer,
                                                     loss_cfg.loss_weight_cls)]]
    /\ n_calls' = n_calls + 1
    /\ UNCHANGED <<tvars, pvars, mvars, cvars, loss_cfg, world_size>>

\* an unknown box_quality rejected before the classification loss
FcosLossesNotImplemented_Early(workers, shape) ==
    /\ n_calls < MaxCalls
    /\ shape = RegTargetsShape(workers)
    /\ loss_cfg.box_quality \notin {"ctrness", "iou"}
    /\ last' = [NoCall EXCEPT !.status = "NotImplementedError",
                              !.workers = workers,
                              !.reg_pred_shape = shape]
    /\ n_calls' = n_calls + 1
    /\ UNCHANGED <<tvars, pvars, mvars, cvars, loss_cfg, world_size, moving_num_fg>>

\* any other box_quality: raise NotImplementedError after the cls loss
FcosLossesNotImplemented(workers, shape) ==
    /\ n_calls < MaxCalls
    /\ shape = RegTargetsShape(workers)
    /\ loss_cfg.box_quality \notin {"ctrness", "iou"}
    /\ LET c == ClsNormalizer(loss_cfg.loss_normalizer_cls, moving_num_fg, workers)
       IN /\ moving_num_fg' = c.moving
          /\ last' = [NoCall EXCEPT !.status = "NotImplementedError",
                                    !.workers = workers,
                                    !.reg_pred_shape = shape,
                                    !.num_pos_avg = NumPosAvg(workers),
                                    !.cls_normalizer = c.normalizer]
    /\ n_calls' = n_calls + 1
    /\ UNCHANGED <<tvars, pvars, mvars, cvars, loss_cfg, world_size>>

LNext ==
    \/ \E workers \in CallInputs : \E shape \in RegPredShapes(workers) :
          FcosLossesAssert(workers, shape)
    \/ \E workers \in CallInputs : \E shape \in RegPredShapes(workers) :
          FcosLossesCtrness(workers, shape)
    \/ \E workers \in CallInputs : \E shape \in RegPredShapes(workers) :
          FcosLossesIou(workers, shape)
    \/ \E workers \in CallInputs : \E shape \in RegPredShapes(workers) :
          FcosLossesNotImplemented(workers, shape)

SpecLosses == LInit /\ [][LNext]_vars

(***************************************************************************)
(* fcos_losses entered by several threads on one FCOSOutputs3D object.     *)
(* The statement self.moving_num_fg = momentum * self.moving_num_fg +      *)
(* (1 - momentum) * num_pos_avg reads the attribute, computes, and stores  *)
(* the result; class_loss / self.moving_num_fg reads it again.  Between    *)
(* these steps another thread may run.  A pass is followed up to the       *)
(* classification loss.                                                    *)
(***************************************************************************)
Threads == 1..MaxPasses

IdlePass == [pc |-> "idle", workers |-> <<>>, num_pos_avg |-> <<0, 1>>,
             moving |-> <<0, 1>>]

CInit ==
    /\ cfg = CfgA
    /\ center_sample = FALSE
    /\ sizes_of_interest = BuildSizesOfInterest(CfgA.SIZES_OF_INTEREST)
    /\ gt_instances = <<>>
    /\ pc = "idle"
    /\ size_ranges = <<>>
    /\ im_i = 0
    /\ num_targets = 0
    /\ labels = <<>>
    /\ reg_targets = <<>>
    /\ target_inds = <<>>
    /\ locals = NoLocals
    /\ training_targets = NoTargets
    /\ loss_cfg \in [loss_normalizer_cls : {"moving_fg", "fg", "all"},
                     box_quality : {"ctrness"}, loss_weight_cls : {1}]
    /\ world_size = 1
    /\ moving_num_fg = QInt(MOVING_NUM_FG_INIT)
    /\ n_calls = 0
    /\ last = NoCall
    /\ InferenceIdle
    /\ ModelIdle
    /\ serialized \in BOOLEAN
    /\ passes = [t \in Threads |-> IdlePass]
    /\ update_log = <<>>

\* a thread enters fcos_losses and computes num_pos_avg; callers that
\* serialize let it in only while no other thread is inside
PassBegin(t, workers) ==
    /\ n_calls < MaxCalls
    /\ passes[t].pc = "idle"
    /\ serialized => \A u \in Threads : passes[u].pc = "idle"
    /\ passes' = [passes EXCEPT ![t] = [pc |-> "cls", workers |-> workers,
                                        num_pos_avg |-> NumPosAvg(workers),
                                        moving |-> <<0, 1>>]]
    /\ update_log' = Append(update_log, NumPosAvg(workers))
    /\ n_calls' = n_calls + 1
    /\ UNCHANGED <<tvars, pvars, mvars, loss_cfg, world_size, moving_num_fg, last,
                   serialized>>

\* "moving_fg": read self.moving_num_fg and compute the new average
PassAverage(t) ==
    /\ passes[t].pc = "cls"
    /\ loss_cfg.loss_normalizer_cls = "moving_fg"
    /\ passes' = [passes EXCEPT ![t].pc = "store",
                                ![t].moving = MovingNumFg(moving_num_fg,
                                                          passes[t].num_pos_avg)]
    /\ UNCHANGED <<tvars, lvars, pvars, mvars, serialized, update_log>>

\* the assignment that leaves self.moving_num_fg as it is
PassStore_Dropped(t) ==
    /\ passes[t].pc = "store"
    /\ passes' = [passes EXCEPT ![t].pc = "divide"]
    /\ UNCHANGED <<tvars, lvars, pvars, mvars, serialized, update_log>>

\* store the computed average into self.moving_num_fg
PassStore(t) ==
    /\ passes[t].pc = "store"
    /\ moving_num_fg' = passes[t].moving
    /\ passes' = [passes EXCEPT ![t].pc = "divide"]
    /\ UNCHANGED <<tvars, pvars, mvars, loss_cfg, world_size, n_calls, last,
                   serialized, update_log>>

\* class_loss / self.moving_num_fg: the attribute is read again
PassDivide(t) ==
    /\ passes[t].pc = "divide"
    /\ last' = [NoCall EXCEPT !.status = "ok", !.workers = passes[t].workers,
                              !.num_pos_avg = passes[t].num_pos_avg,
                              !.cls_normalizer = moving_num_fg]
    /\ passes' = [passes EXCEPT ![t] = IdlePass]
    /\ UNCHANGED <<tvars, pvars, mvars, loss_cfg, world_size, moving_num_fg,
                   n_calls, serialized, update_log>>

\* "fg" and "all": the divisor does not involve self.moving_num_fg
PassNoAverage(t) ==
    /\ passes[t].pc = "cls"
    /\ loss_cfg.loss_normalizer_cls # "moving_fg"
    /\ last' = [NoCall EXCEPT !.status = "ok", !.workers = passes[t].workers,
                              !.num_pos_avg = passes[t].num_pos_avg,
                              !.cls_normalizer =
                                  ClsNormalizer(loss_cfg.loss_normalizer_cls,
                                                moving_num_fg,
                                                passes[t].workers).normalizer]
    /\ passes' = [passes EXCEPT ![t] = IdlePass]
    /\ UNCHANGED <<tvars, pvars, mvars, loss_cfg, world_size, moving_num_fg,
                   n_calls, serialized, update_log>>

CNext ==
    \/ \E t \in Threads : \E s \in SelfPool : PassBegin(t, <<s>>)
    \/ \E t \in Threads : PassAverage(t)
    \/ \E t \in Threads : PassStore(t)
    \/ \E t \in Threads : PassDivide(t)
    \/ \E t \in Threads : PassNoAverage(t)

SpecPasses == CInit /\ [][CNext]_vars

(***************************************************************************)
(* predict_proposals.  A logit is the logarithm ln(n/d) of a quotient,     *)
(* kept as [ln |-> <<n, d>>], so that its sigmoid is exactly n/(n+d).  A   *)
(* score sqrt(q) is kept as [sqrt_of |-> q] and compared through q.  The   *)
(* order of the proposals inside a boxlist is the candidate order.         *)
(***************************************************************************)
QNeg(a) == <<-a[1], a[2]>>
QSub(a, b) == QAdd(a, QNeg(b))
QLess(a, b) == a[1] * b[2] < b[1] * a[2]
QMin(a, b) == IF QLess(b, a) THEN b ELSE a

Ln(n, d) == [ln |-> <<n, d>>]
Sigmoid(x) == Quot(x.ln[1], x.ln[1] + x.ln[2])
Sqrt(q) == [sqrt_of |-> q]
ScoreLess(a, b) == QLess(a.sqrt_of, b.sqrt_of)

\* What the head predicts at one location: the class logits, the quality
\* logit and the six face distances in voxels (the head emits them divided
\* by the level's stride).
PredHi == [logits |-> <<Ln(3, 1), Ln(1, 3)>>, ctrness |-> Ln(3, 1),
           faces |-> <<1, 1, 1, 3, 3, 3>>]
PredMid == [logits |-> <<Ln(1, 1), Ln(1, 1)>>, ctrness |-> Ln(1, 1),
            faces |-> <<2, 2, 2, 2, 2, 2>>]
PredLo == [logits |-> <<Ln(1, 3), Ln(1, 4)>>, ctrness |-> Ln(1, 3),
           faces |-> <<1, 1, 1, 1, 1, 1>>]
PredSharp == [logits |-> <<Ln(3, 1), Ln(3, 1)>>, ctrness |-> Ln(1, 3),
              faces |-> <<1, 1, 1, 2, 2, 2>>]
PredNeg == [logits |-> <<Ln(3, 1), Ln(1, 3)>>, ctrness |-> Ln(3, 1),
            faces |-> <<-1, 1, 1, 2, 1, 1>>]

\* the predictions of one image: per level, per location
ImagePredPool ==
    { << <<PredHi, PredMid>>, <<PredMid, PredSharp>> >>,
      << <<PredMid, PredMid>>, <<PredLo, PredSharp>> >>,
      << <<PredHi, PredNeg>>, <<PredMid, PredLo>> >> }

\* logits_pred, ctrness_pred, reg_pred of one location on a level of stride s
HeadOutput(p, s) ==
    [logits |-> p.logits, ctrness |-> p.ctrness,
     reg_pred |-> [a \in 1..6 |-> Quot(p.faces[a], s)]]

HeadOutputs(ims, strides) ==
    [i \in DOMAIN ims |->
        [l \in DOMAIN ims[i] |->
            [k \in DOMAIN ims[i][l] |-> HeadOutput(ims[i][l][k], strides[l])]]]

\* cfg.MODEL.FCOS: THRESH_WITH_CTR, INFERENCE_TH_*, PRE_NMS_TOPK_*,
\* POST_NMS_TOPK_*, NMS_TH
InferenceCfgPool ==
    { [THRESH_WITH_CTR |-> w,
       INFERENCE_TH_TRAIN |-> c[1], INFERENCE_TH_TEST |-> c[2],
       PRE_NMS_TOPK_TRAIN |-> c[3], PRE_NMS_TOPK_TEST |-> c[4],
       POST_NMS_TOPK_TRAIN |-> c[5], POST_NMS_TOPK_TEST |-> c[6],
       NMS_TH |-> c[7]] :
      w \in BOOLEAN,
      c \in { << <<1, 5>>, <<1, 4>>, 2, 0, 1, -1, <<3, 5>> >>,
              << <<1, 5>>, <<1, 4>>, 1000, 3, 2, 0, <<1, 10>> >> } }

\* predict_proposals: the options of the current mode
NmsSelf(c, train) ==
    IF train
    THEN [pre_nms_thresh |-> c.INFERENCE_TH_TRAIN,
          pre_nms_topk |-> c.PRE_NMS_TOPK_TRAIN,
          post_nms_topk |-> c.POST_NMS_TOPK_TRAIN]
    ELSE [pre_nms_thresh |-> c.INFERENCE_TH_TEST,
          pre_nms_topk |-> c.PRE_NMS_TOPK_TEST,
          post_nms_topk |-> c.POST_NMS_TOPK_TEST]

\* r = per_bundle["r"] * per_bundle["s"]
Denormalize(r, s) == [a \in 1..6 |-> QMul(r[a], QInt(s))]

(***************************************************************************)
(* forward_for_single_feature_map, for one image.                          *)
(***************************************************************************)
\* logits_pred before the threshold: multiplied by the quality when
\* thresh_with_ctr is set
LogitsAtThreshold(p, c, with_ctr) ==
    IF with_ctr THEN QMul(Sigmoid(p.logits[c]), Sigmoid(p.ctrness))
    ELSE Sigmoid(p.logits[c])

\* logits_pred after the threshold, with the multiplication left out
LogitsAfterThreshold_NoLateMultiply(p, c, with_ctr) ==
    LogitsAtThreshold(p, c, with_ctr)

\* logits_pred after the threshold: multiplied by the quality now when
\* thresh_with_ctr is not set
LogitsAfterThreshold(p, c, with_ctr) ==
    IF ~with_ctr THEN QMul(LogitsAtThreshold(p, c, with_ctr), Sigmoid(p.ctrness))
    ELSE LogitsAtThreshold(p, c, with_ctr)

\* candidate_inds = logits_pred > self.pre_nms_thresh, as (location, class)
\* pairs with 0-based class
CandidateInds(level_preds, with_ctr, thresh) ==
    {kc \in (DOMAIN level_preds) \X (0..(NUM_CLASSES - 1)) :
        QLess(thresh, LogitsAtThreshold(level_preds[kc[1]], kc[2] + 1, with_ctr))}

\* nonzero(): the pairs in row-major order
RECURSIVE Nonzero(_)
Nonzero(S) ==
    IF S = {} THEN <<>>
    ELSE LET first == CHOOSE kc \in S :
                 \A o \in S : kc[1] < o[1] \/ (kc[1] = o[1] /\ kc[2] <= o[2])
         IN <<first>> \o Nonzero(S \ {first})

\* the elements of seq at the positions in S, in order
RECURSIVE Pick(_, _)
Pick(seq, S) ==
    IF seq = <<>> THEN <<>>
    ELSE (IF Len(seq) \in S THEN Pick(SubSeq(seq, 1, Len(seq) - 1), S)
                                   \o <<seq[Len(seq)]>>
          ELSE Pick(SubSeq(seq, 1, Len(seq) - 1), S))

\* topk that returns the n lowest values
TopkChoices_Lowest(vals, n) ==
    {S \in SUBSET (DOMAIN vals) :
        /\ Cardinality(S) = n
        /\ \A a \in S : \A b \in (DOMAIN vals) \ S : ~QLess(vals[b], vals[a])}

\* per_box_cls.topk(n, sorted=False): the positions of n highest values;
\* which of several equal values is taken is not specified
TopkChoices(vals, n) ==
    {S \in SUBSET (DOMAIN vals) :
        /\ Cardinality(S) = n
        /\ \A a \in S : \A b \in (DOMAIN vals) \ S : ~QLess(vals[a], vals[b])}

\* the decoded box with the first three distances on both sides
DecodeBox_Symmetric(loc, reg) ==
    << QSub(QInt(loc[1]), reg[1]), QSub(QInt(loc[2]), reg[2]),
       QSub(QInt(loc[3]), reg[3]), QAdd(QInt(loc[1]), reg[1]),
       QAdd(QInt(loc[2]), reg[2]), QAdd(QInt(loc[3]), reg[3]) >>

\* detections: location -/+ regression per face
DecodeBox(loc, reg) ==
    << QSub(QInt(loc[1]), reg[1]), QSub(QInt(loc[2]), reg[2]),
       QSub(QInt(loc[3]), reg[3]), QAdd(QInt(loc[1]), reg[4]),
       QAdd(QInt(loc[2]), reg[5]), QAdd(QInt(loc[3]), reg[6]) >>

\* the boxlists one image can get on one level
SingleFeatureMap(level_preds, locs, stride, level, with_ctr, opts) ==
    LET cand == CandidateInds(level_preds, with_ctr, opts.pre_nms_thresh)
        per_candidate_nonzeros == Nonzero(cand)
        count == Len(per_candidate_nonzeros)
        per_pre_nms_top_n == Min2(count, opts.pre_nms_topk)
        per_box_cls == [j \in 1..count |->
                           LogitsAfterThreshold(
                               level_preds[per_candidate_nonzeros[j][1]],
                               per_candidate_nonzeros[j][2] + 1, with_ctr)]
        kept == IF count > per_pre_nms_top_n
                THEN TopkChoices(per_box_cls, per_pre_nms_top_n)
                ELSE {1..count}
        Boxlist(S) ==
            LET idx == Pick([j \in 1..count |-> j], S) IN
            [j \in 1..Len(idx) |->
                LET kc == per_candidate_nonzeros[idx[j]] IN
                [pred_boxes |-> DecodeBox(locs[kc[1]],
                                    Denormalize(level_preds[kc[1]].reg_pred, stride)),
                 scores |-> Sqrt(per_box_cls[idx[j]]),
                 pred_classes |-> kc[2],
                 locations |-> locs[kc[1]],
                 fpn_levels |-> level - 1]]
    IN {Boxlist(S) : S \in kept}

(***************************************************************************)
(* ml_nms3d (adet.utils.comm), from its contract: the proposals in         *)
(* descending score order, a proposal dropped when a kept proposal of its  *)
(* class overlaps it with 3D IoU >= the threshold.  Equal scores may come  *)
(* in any order.                                                           *)
(***************************************************************************)
BoxVolume(b) ==
    QMul(QMul(QSub(b[4], b[1]), QSub(b[5], b[2])), QSub(b[6], b[3]))

Overlap(a, b, ax) ==
    QMax(QInt(0), QSub(QMin(a[ax + 3], b[ax + 3]), QMax(a[ax], b[ax])))

Intersection(a, b) ==
    QMul(QMul(Overlap(a, b, 1), Overlap(a, b, 2)), Overlap(a, b, 3))

\* IoU(a, b) >= thresh
IouAtLeast(a, b, thresh) ==
    LET inter == Intersection(a, b)
        union == QSub(QAdd(BoxVolume(a), BoxVolume(b)), inter)
    IN /\ QLess(QInt(0), union)
       /\ ~QLess(inter, QMul(thresh, union))

\* The orders of the positions in S by descending score.  Only proposals of
\* one class suppress each other, so equal scores are permuted within a
\* class and classes with equal scores come in input order.
RECURSIVE DescendingOrders(_, _)
DescendingOrders(dets, S) ==
    IF S = {} THEN {<<>>}
    ELSE LET top == {j \in S : \A o \in S : ~ScoreLess(dets[j].scores, dets[o].scores)}
             first == CHOOSE j \in top : \A o \in top : j <= o
             same == {j \in top : dets[j].pred_classes = dets[first].pred_classes}
         IN UNION {{<<j>> \o rest : rest \in DescendingOrders(dets, S \ {j})} :
                   j \in same}

\* the positions kept when the proposals are visited in `order`
RECURSIVE GreedyKeep(_, _, _, _)
GreedyKeep(dets, order, thresh, kept) ==
    IF order = <<>> THEN kept
    ELSE LET d == dets[Head(order)]
             suppressed == \E j \in kept :
                              /\ dets[j].pred_classes = d.pred_classes
                              /\ IouAtLeast(dets[j].pred_boxes, d.pred_boxes, thresh)
         IN GreedyKeep(dets, Tail(order), thresh,
                       IF suppressed THEN kept ELSE kept \cup {Head(order)})

\* descending score, equal scores in input order
RECURSIVE SortedDescending(_, _)
SortedDescending(dets, S) ==
    IF S = {} THEN <<>>
    ELSE LET top == CHOOSE j \in S :
                       \A o \in S : \/ ScoreLess(dets[o].scores, dets[j].scores)
                                    \/ (~ScoreLess(dets[j].scores, dets[o].scores)
                                        /\ j <= o)
         IN <<dets[top]>> \o SortedDescending(dets, S \ {top})

\* the kept proposals are listed with equal scores in input order
ml_nms3d(dets, thresh) ==
    {SortedDescending(dets, GreedyKeep(dets, order, thresh, {})) :
        order \in DescendingOrders(dets, DOMAIN dets)}

(***************************************************************************)
(* select_over_all_levels, for one image.                                  *)
(***************************************************************************)
\* torch.kthvalue(scores, k): the k-th smallest score
RECURSIVE KthValue(_, _)
KthValue(scores, k) ==
    LET low == CHOOSE j \in DOMAIN scores :
                   \A o \in DOMAIN scores : ~ScoreLess(scores[o], scores[j])
    IN IF k = 1 THEN scores[low]
       ELSE KthValue(Pick(scores, (DOMAIN scores) \ {low}), k - 1)

\* the cut that keeps the scores above the threshold only
PostNmsTopk_Strict(result, post_nms_topk) ==
    LET number_of_detections == Len(result) IN
    IF number_of_detections > post_nms_topk /\ post_nms_topk > 0
    THEN LET cls_scores == [j \in DOMAIN result |-> result[j].scores]
             image_thresh == KthValue(cls_scores,
                                      number_of_detections - post_nms_topk + 1)
         IN Pick(result, {j \in DOMAIN result :
                             ScoreLess(image_thresh, cls_scores[j])})
    ELSE result

\* the cut with the threshold at the k-th smallest score
PostNmsTopk_KthSmallest(result, post_nms_topk) ==
    LET number_of_detections == Len(result) IN
    IF number_of_detections > post_nms_topk /\ post_nms_topk > 0
    THEN LET cls_scores == [j \in DOMAIN result |-> result[j].scores]
             image_thresh == KthValue(cls_scores, post_nms_topk)
         IN Pick(result, {j \in DOMAIN result :
                             ~ScoreLess(cls_scores[j], image_thresh)})
    ELSE result

\* Limit to max_per_image detections over all classes
PostNmsTopk(result, post_nms_topk) ==
    LET number_of_detections == Len(result) IN
    IF number_of_detections > post_nms_topk /\ post_nms_topk > 0
    THEN LET cls_scores == [j \in DOMAIN result |-> result[j].scores]
             image_thresh == KthValue(cls_scores,
                                      number_of_detections - post_nms_topk + 1)
         IN Pick(result, {j \in DOMAIN result :
                             ~ScoreLess(cls_scores[j], image_thresh)})
    ELSE result

\* what one image can get: the NMS result and the result after the cut
SelectPerImage(boxlist, thresh, post_nms_topk) ==
    {[nms |-> kept, result |-> PostNmsTopk(kept, post_nms_topk)] :
        kept \in ml_nms3d(boxlist, thresh)}

(***************************************************************************)
(* predict_proposals as a state machine.                                   *)
(***************************************************************************)
ImageSeqs == UNION {[1..n -> ImagePredPool] : n \in 1..MaxImages}

PInit ==
    /\ cfg \in CfgPool
    /\ center_sample = FALSE
    /\ sizes_of_interest = BuildSizesOfInterest(cfg.SIZES_OF_INTEREST)
    /\ gt_instances = <<>>
    /\ pc = "idle"
    /\ size_ranges = <<>>
    /\ im_i = 0
    /\ num_targets = 0
    /\ labels = <<>>
    /\ reg_targets = <<>>
    /\ target_inds = <<>>
    /\ locals = NoLocals
    /\ training_targets = NoTargets
    /\ loss_cfg = [loss_normalizer_cls |-> "moving_fg", box_quality |-> "ctrness",
                   loss_weight_cls |-> 1]
    /\ world_size = 1
    /\ moving_num_fg = QInt(MOVING_NUM_FG_INIT)
    /\ n_calls = 0
    /\ last = NoCall
    /\ training \in BOOLEAN
    /\ icfg \in InferenceCfgPool
    /\ \E ims \in ImageSeqs : preds = HeadOutputs(ims, cfg.FPN_STRIDES)
    /\ ppc = "start"
    /\ level_i = 0
    /\ nms_self = <<>>
    /\ candidate_inds = <<>>
    /\ sampled_boxes = <<>>
    /\ nms_out = <<>>
    /\ results = <<>>
    /\ ModelIdle
    /\ PassesIdle

\* results = [...]: one boxlist per image, each among the image's choices
RECURSIVE OnePerImage(_, _)
OnePerImage(choices, n) ==
    IF n = 0 THEN {<<>>}
    ELSE {Append(rest, b) : rest \in OnePerImage(choices, n - 1), b \in choices[n]}

\* the mode's options are taken
PredictProposalsBegin ==
    /\ ppc = "start"
    /\ nms_self' = NmsSelf(icfg, training)
    /\ ppc' = "levels"
    /\ UNCHANGED <<tvars, lvars, mvars, cvars, training, icfg, preds, level_i,
                   candidate_inds, sampled_boxes, nms_out, results>>

\* one iteration of the loop over the levels
ForwardForSingleFeatureMap ==
    /\ ppc = "levels"
    /\ level_i < Len(cfg.FPN_STRIDES)
    /\ LET l == level_i + 1
           choices == [i \in DOMAIN preds |->
                          SingleFeatureMap(preds[i][l], LOCATIONS[l],
                                           cfg.FPN_STRIDES[l], l,
                                           icfg.THRESH_WITH_CTR, nms_self)]
       IN \E per_im \in OnePerImage(choices, Len(preds)) :
             /\ sampled_boxes' = Append(sampled_boxes, per_im)
             /\ candidate_inds' =
                    Append(candidate_inds,
                           [i \in DOMAIN preds |->
                               CandidateInds(preds[i][l], icfg.THRESH_WITH_CTR,
                                             nms_self.pre_nms_thresh)])
    /\ level_i' = level_i + 1
    /\ ppc' = IF level_i + 1 = Len(cfg.FPN_STRIDES) THEN "select" ELSE "levels"
    /\ UNCHANGED <<tvars, lvars, mvars, cvars, training, icfg, preds, nms_self,
                   nms_out, results>>

\* boxlists = [Instances.cat(boxlist) for boxlist in zip(*sampled_boxes)]
Boxlists(i) == Cat([l \in DOMAIN sampled_boxes |-> sampled_boxes[l][i]])

\* one iteration of the loop of select_over_all_levels
SelectOverAllLevels ==
    /\ ppc = "select"
    /\ LET i == Len(results) + 1 IN
       \E r \in SelectPerImage(Boxlists(i), icfg.NMS_TH, nms_self.post_nms_topk) :
          /\ nms_out' = Append(nms_out, r.nms)
          /\ results' = Append(results, r.result)
          /\ ppc' = IF i = Len(preds) THEN "done" ELSE "select"
    /\ UNCHANGED <<tvars, lvars, mvars, cvars, training, icfg, preds, level_i, nms_self,
                   candidate_inds, sampled_boxes>>

PNext ==
    \/ PredictProposalsBegin
    \/ ForwardForSingleFeatureMap
    \/ SelectOverAllLevels

SpecProposals == PInit /\ [][PNext]_vars

(***************************************************************************)
(* UInst3D (adet/modeling/condinst/uinst.py).  A mask tensor of one        *)
(* instance is [shape |-> <<s, h, w>>, ones |-> the 0-based voxels         *)
(* <<i, j, k>> that are set].  Boxes are not part of this state.           *)
(***************************************************************************)
\* cfg.MODEL.CONDINST: MAX_PROPOSALS, TOPK_PROPOSALS_PER_IM, MASK_OUT_STRIDE,
\* ONLY_SEG; cfg.MODEL.BOXINST.ENABLED
ModelCfgPool ==
    [max_proposals : {-1, 1}, topk_proposals_per_im : {-1, 2},
     mask_out_stride : {1, 2}, only_seg : BOOLEAN, boxinst_enabled : BOOLEAN]

\* the spatial shape of the batch tensor: from_tensors stacks the volumes, so
\* every volume of the batch has it
VolumeSizes == {<<4, 4, 4>>, <<7, 4, 4>>}

\* x["instances"] of one image: gt_boxes (x1, y1, z1, x2, y2, z2), one per
\* instance, and gt_masks: the shape and, per instance, the voxels set;
\* has_gt_masks is per_im_gt_inst.has("gt_masks")
GtNoMasks ==
    [has_gt_masks |-> FALSE, shape |-> <<0, 0, 0>>, masks |-> <<>>,
     boxes |-> <<>>]

GtCube ==
    [has_gt_masks |-> TRUE, shape |-> <<4, 4, 4>>,
     masks |-> << {<<0, 0, 0>>, <<1, 1, 1>>, <<3, 3, 3>>} >>,
     boxes |-> << <<0, 0, 0, 3, 3, 3>> >>]

GtSlab ==
    [has_gt_masks |-> TRUE, shape |-> <<4, 4, 2>>,
     masks |-> << {<<1, 1, 1>>, <<3, 2, 1>>}, {<<0, 3, 0>>} >>,
     boxes |-> << <<1, 1, 1, 3, 2, 1>>, <<0, 3, 0, 0, 3, 0>> >>]

\* the ground truth of the images of a batch
GtBatches ==
    { <<GtNoMasks>>, <<GtCube>>, <<GtSlab, GtCube>>, <<GtCube, GtNoMasks>> }

\* the proposals with top_feats the proposal generator returns in training
Proposal(im, gt, p) ==
    [im_inds |-> im, gt_inds |-> gt, logits_pred |-> p.logits,
     ctrness_pred |-> p.ctrness]

ProposalPool ==
    { <<>>,
      << Proposal(0, 0, PredHi), Proposal(0, 0, PredMid), Proposal(0, 1, PredSharp) >>,
      << Proposal(0, 1, PredMid), Proposal(0, 1, PredSharp), Proposal(0, 1, PredLo),
         Proposal(0, 0, PredLo) >>,
      << Proposal(1, 1, PredSharp), Proposal(0, 0, PredHi), Proposal(1, 1, PredLo),
         Proposal(1, 1, PredMid) >> }

\* F.pad(t, pad, "constant", 0) on the last three axes: pad[1], pad[2] go to
\* the last axis, pad[3], pad[4] to the one before, pad[5], pad[6] to the
\* third from the end
Pad3d(t, pad) ==
    [shape |-> <<t.shape[1] + pad[5] + pad[6],
                 t.shape[2] + pad[3] + pad[4],
                 t.shape[3] + pad[1] + pad[2]>>,
     ones |-> {<<v[1] + pad[5], v[2] + pad[3], v[3] + pad[1]>> : v \in t.ones}]

\* len(range(start, n, step))
StridedLen(n, start, step) ==
    IF n > start THEN (n - start + step - 1) \div step ELSE 0

\* t[:, start::stride, start::stride, start::stride]
Subsample(t, start, stride) ==
    LET sh == [a \in 1..3 |-> StridedLen(t.shape[a], start, stride)] IN
    [shape |-> sh,
     ones |-> {v \in (0..(sh[1] - 1)) \X (0..(sh[2] - 1)) \X (0..(sh[3] - 1)) :
                  <<start + v[1] * stride, start + v[2] * stride,
                    start + v[3] * stride>> \in t.ones}]

\* add_bitmasks for one image: gt_bitmasks and gt_bitmasks_full
AddBitmasksPerIm(per_im, im, mask_out_stride) ==
    IF ~per_im.has_gt_masks THEN [has_bitmasks |-> FALSE, gt_bitmasks |-> <<>>,
                                  gt_bitmasks_full |-> <<>>]
    ELSE LET start == mask_out_stride \div 2
             s == per_im.shape[1]
             h == per_im.shape[2]
             w == per_im.shape[3]
             full == [g \in DOMAIN per_im.masks |->
                         Pad3d([shape |-> per_im.shape, ones |-> per_im.masks[g]],
                               <<0, im[1] - s, 0, im[2] - h, 0, im[3] - w>>)]
         IN [has_bitmasks |-> TRUE,
             gt_bitmasks |-> [g \in DOMAIN full |->
                                 Subsample(full[g], start, mask_out_stride)],
             gt_bitmasks_full |-> full]

add_bitmasks(instances, im, mask_out_stride) ==
    [i \in DOMAIN instances |-> AddBitmasksPerIm(instances[i], im, mask_out_stride)]

(***************************************************************************)
(* add_bitmasks_from_boxes (box-supervised mode).  The color similarity    *)
(* and the image masks do not enter the bitmasks and are left out; the     *)
(* batch tensors have the size of the volumes.                             *)
(***************************************************************************)
\* per_im_gt_inst before any bitmask is attached
NoBitmasks == [has_bitmasks |-> FALSE, gt_bitmasks |-> <<>>,
               gt_bitmasks_full |-> <<>>]

\* torch.zeros((im_s, im_h, im_w)) with
\* [int(b[0]):int(b[3] + 1), int(b[1]):int(b[4] + 1), int(b[2]):int(b[5] + 1)]
\* set to 1
BitmaskFull_HalfOpen(box, im) ==
    [shape |-> im,
     ones |-> {v \in (0..(im[1] - 1)) \X (0..(im[2] - 1)) \X (0..(im[3] - 1)) :
                  \A a \in 1..3 : box[a] <= v[a] /\ v[a] < box[a + 3]}]

BitmaskFull(box, im) ==
    [shape |-> im,
     ones |-> {v \in (0..(im[1] - 1)) \X (0..(im[2] - 1)) \X (0..(im[3] - 1)) :
                  \A a \in 1..3 : box[a] <= v[a] /\ v[a] < box[a + 3] + 1}]

\* the body of the loop over the images: torch.stack of an empty list raises
\* when the image has no box; the three assertions on the subsampled sizes
BitmasksFromBoxesPerIm(per_im, im, stride) ==
    LET start == stride \div 2
        full == [g \in DOMAIN per_im.boxes |-> BitmaskFull(per_im.boxes[g], im)]
    IN IF \E a \in 1..3 : per_im.boxes # <<>>
                            /\ StridedLen(im[a], start, stride) * stride # im[a]
       THEN [status |-> "AssertionError", instance |-> NoBitmasks]
       ELSE IF per_im.boxes = <<>>
       THEN [status |-> "RuntimeError", instance |-> NoBitmasks]
       ELSE [status |-> "ok",
             instance |-> [has_bitmasks |-> TRUE,
                           gt_bitmasks |-> [g \in DOMAIN full |->
                                               Subsample(full[g], start, stride)],
                           gt_bitmasks_full |-> full]]

\* the images are handled in batch order; the first failure ends the call
add_bitmasks_from_boxes(instances, im, stride) ==
    LET per == [i \in DOMAIN instances |->
                   BitmasksFromBoxesPerIm(instances[i], im, stride)]
        bad == {i \in DOMAIN instances : per[i].status # "ok"}
        first == CHOOSE i \in bad : \A j \in bad : i <= j
    IN IF im[1] % stride # 0 \/ im[2] % stride # 0
       THEN [status |-> "AssertionError",
             instances |-> [i \in DOMAIN instances |-> NoBitmasks]]
       ELSE IF bad = {}
       THEN [status |-> "ok", instances |-> [i \in DOMAIN instances |-> per[i].instance]]
       ELSE [status |-> per[first].status,
             instances |-> [i \in DOMAIN instances |->
                               IF i < first THEN per[i].instance ELSE NoBitmasks]]

(***************************************************************************)
(* _forward_mask_heads_train: the proposals handed to the mask head.       *)
(***************************************************************************)
\* scores * ctrness_pred of one proposal
ProposalScore(q) ==
    LET cls == [c \in DOMAIN q.logits_pred |-> Sigmoid(q.logits_pred[c])]
        best == CHOOSE c \in DOMAIN cls : \A o \in DOMAIN cls : ~QLess(cls[c], cls[o])
    IN QMul(cls[best], Sigmoid(q.ctrness_pred))

\* the positions of seq whose element satisfies im_inds = im (and gt_inds = gt)
OfImage(seq, im) == {j \in DOMAIN seq : seq[j].im_inds = im}
OfGt(seq, gt) == {j \in DOMAIN seq : seq[j].gt_inds = gt}

\* instances_per_gt of the ground-truth indices of `gts` in ascending order:
\* the sequences the loop over unique_gt_inds can append
RECURSIVE KeptPerGt(_, _, _)
KeptPerGt(per_im, gts, num) ==
    IF gts = {} THEN {<<>>}
    ELSE LET gt == CHOOSE g \in gts : \A o \in gts : g <= o
             per_gt == Pick(per_im, OfGt(per_im, gt))
             vals == [j \in DOMAIN per_gt |-> ProposalScore(per_gt[j])]
             kept == IF Len(per_gt) > num
                     THEN {Pick(per_gt, S) : S \in TopkChoices(vals, num)}
                     ELSE {per_gt}
         IN {k \o rest : k \in kept, rest \in KeptPerGt(per_im, gts \ {gt}, num)}

\* the loop over the images with topk_proposals_per_im granted to every
\* ground-truth index in full
RECURSIVE KeptInstances_Undivided(_, _, _, _)
KeptInstances_Undivided(pred, im, num_images, topk) ==
    IF im = num_images THEN {<<>>}
    ELSE LET per_im == Pick(pred, OfImage(pred, im))
             unique_gt_inds == {per_im[j].gt_inds : j \in DOMAIN per_im}
             num == Max2(topk, 1)
         IN {k \o rest : k \in KeptPerGt(per_im, unique_gt_inds, num),
                         rest \in KeptInstances_Undivided(pred, im + 1,
                                                          num_images, topk)}

RECURSIVE KeptInstances(_, _, _, _)
KeptInstances(pred, im, num_images, topk) ==
    IF im = num_images THEN {<<>>}
    ELSE LET per_im == Pick(pred, OfImage(pred, im))
             unique_gt_inds == {per_im[j].gt_inds : j \in DOMAIN per_im}
             num == IF per_im = <<>> THEN 1
                    ELSE Max2(topk \div Cardinality(unique_gt_inds), 1)
         IN {k \o rest : k \in KeptPerGt(per_im, unique_gt_inds, num),
                         rest \in KeptInstances(pred, im + 1, num_images, topk)}

\* the proposals the two caps can leave, listed in the order of
\* pred_instances (the order randperm and topk put them in is left out);
\* randperm may pick any max_proposals of them
CappedProposals(pred, num_images, c) ==
    IF c.max_proposals # -1
    THEN (IF c.max_proposals < Len(pred)
          THEN {Pick(pred, S) : S \in {T \in SUBSET (DOMAIN pred) :
                                          Cardinality(T) = c.max_proposals}}
          ELSE {pred})
    ELSE IF c.topk_proposals_per_im # -1
    THEN KeptInstances(pred, 0, num_images, c.topk_proposals_per_im)
    ELSE {pred}

(***************************************************************************)
(* postprocess: the mask part.  aligned_bilinear3d (adet.utils.comm)       *)
(* returns a tensor of factor times the input size on every axis, for a    *)
(* whole factor >= 1; the mask head returns pred_global_masks at the       *)
(* resolution of mask_out_stride, rounded down or up.                      *)
(***************************************************************************)
MaskHeadSize(size, stride, round_up) ==
    [a \in 1..3 |-> IF round_up THEN (size[a] + stride - 1) \div stride
                    ELSE Max2(size[a] \div stride, 1)]

aligned_bilinear3d(shape, factor) == [a \in 1..3 |-> shape[a] * factor]

\* t[:, :, :n_s, :n_h, :n_w]
CropTo(shape, n) == [a \in 1..3 |-> Min2(shape[a], n[a])]

\* (pred_global_masks > mask_threshold).float() of a value
Binarize(v, mask_threshold) == IF QLess(mask_threshold, v) THEN 1 ELSE 0

\* values a resized mask probability can take
MaskValues == {<<0, 1>>, <<1, 2>>, <<3, 4>>, <<1, 1>>}

postprocess(image_size, output, padded, mask_size) ==
    LET factor_s == padded[1] \div mask_size[1]
        factor_h == padded[2] \div mask_size[2]
        factor_w == padded[3] \div mask_size[3]
    IN IF ~(factor_h = factor_w /\ factor_w = factor_s) \/ factor_h < 1
       THEN [status |-> "AssertionError", cropped |-> <<>>, pred_masks |-> <<>>,
             values |-> {}]
       ELSE [status |-> "ok",
             cropped |-> CropTo(aligned_bilinear3d(mask_size, factor_h), image_size),
             pred_masks |-> output,
             values |-> {Binarize(v, <<1, 2>>) : v \in MaskValues}]

(***************************************************************************)
(* UInst3D.forward as a state machine: calls on one model, one after       *)
(* another.                                                                *)
(***************************************************************************)
\* ImageList3D.from_tensors on volumes of the given spatial shapes (the
\* channel axis is the same for all).  t.shape[:-2] holds the depth, so a
\* volume of another depth fails the assertion; torch.stack raises on any
\* other difference.  No volume is padded.
from_tensors(volumes) ==
    IF \E i \in DOMAIN volumes : volumes[i][1] # volumes[1][1]
    THEN [status |-> "AssertionError", tensor |-> <<>>, image_sizes |-> <<>>]
    ELSE IF \E i \in DOMAIN volumes : volumes[i] # volumes[1]
    THEN [status |-> "RuntimeError", tensor |-> <<>>, image_sizes |-> <<>>]
    ELSE [status |-> "ok", tensor |-> <<Len(volumes)>> \o volumes[1],
          image_sizes |-> volumes]

\* n volumes of one shape
Uniform(n, size) == [i \in 1..n |-> size]

\* batches whose volumes differ in shape
MixedBatches ==
    UNION { {v \in [1..n -> VolumeSizes \cup {<<4, 4, 6>>}] :
                \E i \in 1..n : v[i] # v[1]} : n \in 2..MaxImages }

NoForward == [status |-> "none"]

MInit ==
    /\ cfg = CfgA
    /\ center_sample = FALSE
    /\ sizes_of_interest = BuildSizesOfInterest(CfgA.SIZES_OF_INTEREST)
    /\ gt_instances = <<>>
    /\ pc = "idle"
    /\ size_ranges = <<>>
    /\ im_i = 0
    /\ num_targets = 0
    /\ labels = <<>>
    /\ reg_targets = <<>>
    /\ target_inds = <<>>
    /\ locals = NoLocals
    /\ training_targets = NoTargets
    /\ loss_cfg = [loss_normalizer_cls |-> "moving_fg", box_quality |-> "ctrness",
                   loss_weight_cls |-> 1]
    /\ world_size = 1
    /\ moving_num_fg = QInt(MOVING_NUM_FG_INIT)
    /\ n_calls = 0
    /\ last = NoCall
    /\ training \in BOOLEAN
    /\ icfg = <<>>
    /\ preds = <<>>
    /\ ppc = "idle"
    /\ level_i = 0
    /\ nms_self = <<>>
    /\ candidate_inds = <<>>
    /\ sampled_boxes = <<>>
    /\ nms_out = <<>>
    /\ results = <<>>
    /\ model_cfg \in ModelCfgPool
    /\ forward_calls = 0
    /\ forward_last = NoForward
    /\ PassesIdle

\* what every forward call does first: the bitmasks of the ground truth
Bitmasks(size, gts, has_instances) ==
    IF ~has_instances THEN [status |-> "ok", instances |-> <<>>]
    ELSE IF model_cfg.boxinst_enabled
    THEN add_bitmasks_from_boxes(gts, size, model_cfg.mask_out_stride)
    ELSE [status |-> "ok",
          instances |-> add_bitmasks(gts, size, model_cfg.mask_out_stride)]

Prepared(size, gts, has_instances) == Bitmasks(size, gts, has_instances).instances

\* box-supervised mode: add_bitmasks_from_boxes raises and the call ends
ForwardBitmasksFail(size, gts) ==
    /\ forward_calls < MaxCalls
    /\ Bitmasks(size, gts, TRUE).status # "ok"
    /\ forward_last' = [status |-> Bitmasks(size, gts, TRUE).status,
                        training |-> training, size |-> size,
                        gts |-> gts,
                        volumes |-> Uniform(Len(gts), size),
                        images |-> from_tensors(Uniform(Len(gts), size)),
                        gt_instances |-> Prepared(size, gts, TRUE),
                        mask_head_invoked |-> FALSE]
    /\ forward_calls' = forward_calls + 1
    /\ UNCHANGED <<tvars, lvars, pvars, cvars, model_cfg>>

\* the volumes of the batch differ in shape: from_tensors fails and the
\* call ends there
ForwardFromTensorsFails(volumes) ==
    /\ forward_calls < MaxCalls
    /\ from_tensors(volumes).status # "ok"
    /\ forward_last' = [status |-> from_tensors(volumes).status,
                        training |-> training,
                        volumes |-> volumes,
                        images |-> from_tensors(volumes),
                        gts |-> <<>>,
                        gt_instances |-> <<>>,
                        mask_head_invoked |-> FALSE]
    /\ forward_calls' = forward_calls + 1
    /\ UNCHANGED <<tvars, lvars, pvars, cvars, model_cfg>>

\* only_seg: the call returns after the mask branch
ForwardOnlySeg(size, gts, has_instances) ==
    /\ forward_calls < MaxCalls
    /\ model_cfg.only_seg
    /\ training => has_instances
    /\ Bitmasks(size, gts, has_instances).status = "ok"
    /\ forward_last' = [status |-> "ok", training |-> training, size |-> size,
                        gts |-> gts,
                        volumes |-> Uniform(Len(gts), size),
                        images |-> from_tensors(Uniform(Len(gts), size)),
                        gt_instances |-> Prepared(size, gts, has_instances),
                        mask_head_invoked |-> FALSE,
                        returned |-> IF training THEN "seg_losses" ELSE "seg_results"]
    /\ forward_calls' = forward_calls + 1
    /\ UNCHANGED <<tvars, lvars, pvars, cvars, model_cfg>>

\* training: the assertion of _forward_mask_heads_train fails
ForwardTrainAssert(size, gts, proposals) ==
    /\ forward_calls < MaxCalls
    /\ ~model_cfg.only_seg
    /\ training
    /\ ~(model_cfg.max_proposals = -1 \/ model_cfg.topk_proposals_per_im = -1)
    /\ Bitmasks(size, gts, TRUE).status = "ok"
    /\ forward_last' = [status |-> "AssertionError", training |-> training,
                        size |-> size, gts |-> gts,
                        volumes |-> Uniform(Len(gts), size),
                        images |-> from_tensors(Uniform(Len(gts), size)),
                        gt_instances |-> Prepared(size, gts, TRUE),
                        proposals |-> proposals,
                        mask_head_invoked |-> FALSE]
    /\ forward_calls' = forward_calls + 1
    /\ UNCHANGED <<tvars, lvars, pvars, cvars, model_cfg>>

\* training: the capped proposals go to the mask head, the losses return
ForwardTrain(size, gts, proposals) ==
    /\ forward_calls < MaxCalls
    /\ ~model_cfg.only_seg
    /\ training
    /\ model_cfg.max_proposals = -1 \/ model_cfg.topk_proposals_per_im = -1
    /\ Bitmasks(size, gts, TRUE).status = "ok"
    /\ \E pred_instances \in CappedProposals(proposals, Len(gts), model_cfg) :
          forward_last' = [status |-> "ok", training |-> training, size |-> size,
                           gts |-> gts,
                           volumes |-> Uniform(Len(gts), size),
                           images |-> from_tensors(Uniform(Len(gts), size)),
                           gt_instances |-> Prepared(size, gts, TRUE),
                           proposals |-> proposals,
                           mask_head_invoked |-> TRUE,
                           pred_instances |-> pred_instances,
                           returned |-> "losses"]
    /\ forward_calls' = forward_calls + 1
    /\ UNCHANGED <<tvars, lvars, pvars, cvars, model_cfg>>

\* inference: the mask head runs on all proposals, then postprocess per image
ForwardTest(size, gts, has_instances, round_up, requested) ==
    /\ forward_calls < MaxCalls
    /\ ~model_cfg.only_seg
    /\ ~training
    /\ Bitmasks(size, gts, has_instances).status = "ok"
    /\ LET mask_size == MaskHeadSize(size, model_cfg.mask_out_stride, round_up)
           output == IF requested = <<>> THEN size ELSE requested
           per_im == postprocess(size, output, size, mask_size)
       IN forward_last' =
              [status |-> per_im.status, training |-> training, size |-> size,
               gts |-> gts,
               volumes |-> Uniform(Len(gts), size),
               images |-> from_tensors(Uniform(Len(gts), size)),
               gt_instances |-> Prepared(size, gts, has_instances),
               mask_head_invoked |-> TRUE,
               mask_size |-> mask_size,
               output |-> output,
               processed_results |->
                   IF per_im.status = "ok" THEN [i \in DOMAIN gts |-> per_im]
                   ELSE <<>>,
               returned |-> IF per_im.status = "ok" THEN "processed_results"
                            ELSE "nothing"]
    /\ forward_calls' = forward_calls + 1
    /\ UNCHANGED <<tvars, lvars, pvars, cvars, model_cfg>>

RequestedSizes == {<<>>, <<5, 3, 4>>}

MNext ==
    \/ \E volumes \in MixedBatches : ForwardFromTensorsFails(volumes)
    \/ \E size \in VolumeSizes : \E gts \in GtBatches : ForwardBitmasksFail(size, gts)
    \/ \E size \in VolumeSizes : \E gts \in GtBatches : \E has \in BOOLEAN :
          ForwardOnlySeg(size, gts, has)
    \/ \E size \in VolumeSizes : \E gts \in GtBatches : \E proposals \in ProposalPool :
          ForwardTrainAssert(size, gts, proposals)
    \/ \E size \in VolumeSizes : \E gts \in GtBatches : \E proposals \in ProposalPool :
          ForwardTrain(size, gts, proposals)
    \/ \E size \in VolumeSizes : \E gts \in GtBatches : \E has \in BOOLEAN :
       \E round_up \in BOOLEAN : \E requested \in RequestedSizes :
          ForwardTest(size, gts, has, round_up, requested)

SpecModel == MInit /\ [][MNext]_vars

(***************************************************************************)
(* Vocabulary of the properties, stated from the inputs alone.             *)
(***************************************************************************)
Processed == 1..Len(labels)

Rows == 1..NumLoc

BoxesOf(i) == 1..Len(gt_instances[i].gt_boxes)

\* number of instances in the images before image i
OffsetOf(i) == SumSeq([j \in 1..(i - 1) |-> Len(gt_instances[j].gt_boxes)])

FaceDistances(k, box) ==
    LET x == AllLocations[k][1]
        y == AllLocations[k][2]
        z == AllLocations[k][3]
    IN << x - box[1], y - box[2], z - box[3], box[4] - x, box[5] - y, box[6] - z >>

AllPositive(d) == \A a \in 1..6 : d[a] > 0

MaxDistance(d) == CHOOSE m \in {d[a] : a \in 1..6} : \A a \in 1..6 : d[a] <= m

Volume(box) == (box[4] - box[1]) * (box[5] - box[2]) * (box[6] - box[3])

\* x lies strictly inside [max(box_min, c - radius*stride), min(box_max,
\* c + radius*stride)] on every axis, c the mass centre of the bitmask
InCenterWindow(k, box, mask) ==
    LET n  == IF mask = {} THEN 1 ELSE Cardinality(mask)
        rn == cfg.POS_RADIUS[1]
        rd == cfg.POS_RADIUS[2]
        s  == cfg.FPN_STRIDES[LevelOfRow(k)]
    IN \A a \in 1..3 :
          LET x == AllLocations[k][a]
              m == SumCoord(mask, a)
          IN /\ x > box[a]
             /\ x < box[a + 3]
             /\ x * n * rd > m * rd - rn * s * n
             /\ x * n * rd < m * rd + rn * s * n

IsCandidate(i, k, g) ==
    IF center_sample
    THEN InCenterWindow(k, gt_instances[i].gt_boxes[g],
                        gt_instances[i].gt_bitmasks_full[g])
    ELSE AllPositive(FaceDistances(k, gt_instances[i].gt_boxes[g]))

InLevelRange(k, g, i) ==
    LET m == MaxDistance(FaceDistances(k, gt_instances[i].gt_boxes[g]))
        r == sizes_of_interest[LevelOfRow(k)]
    IN r[1] <= m /\ m <= r[2]

Qualifies(i, k, g) == IsCandidate(i, k, g) /\ InLevelRange(k, g, i)

\* the box (1-based, within image i) that target_inds names for row k
AssignedBox(i, k) == target_inds[i][k] - OffsetOf(i) + 1

(***************************************************************************)
(* C1: after compute_targets_for_locations has handled an image, every     *)
(* location of that image for which no box is both a candidate and         *)
(* size-eligible has label NUM_CLASSES, the zero regression target and     *)
(* instance index -1, also when the image has ground-truth boxes.          *)
(***************************************************************************)
C1_BackgroundTargets ==
    \A i \in Processed : \A k \in Rows :
        (\A g \in BoxesOf(i) : ~Qualifies(i, k, g)) =>
            /\ labels[i][k] = NUM_CLASSES
            /\ reg_targets[i][k] = Zeros6
            /\ target_inds[i][k] = -1

(***************************************************************************)
(* C2: every location with at least one qualifying box is assigned a       *)
(* qualifying box of minimum volume, the lowest-indexed one among those of *)
(* minimum volume.                                                         *)
(***************************************************************************)
C2_MinAreaAssignment ==
    \A i \in Processed : \A k \in Rows :
        (\E g \in BoxesOf(i) : Qualifies(i, k, g)) =>
            LET b == AssignedBox(i, k) IN
            /\ b \in BoxesOf(i)
            /\ Qualifies(i, k, b)
            /\ \A g \in BoxesOf(i) : Qualifies(i, k, g) =>
                  \/ Volume(gt_instances[i].gt_boxes[b])
                        < Volume(gt_instances[i].gt_boxes[g])
                  \/ /\ Volume(gt_instances[i].gt_boxes[b])
                          = Volume(gt_instances[i].gt_boxes[g])
                     /\ b <= g

(***************************************************************************)
(* C3: with center sampling disabled, a location whose six face distances  *)
(* to a box B are all positive and whose largest face distance lies in its *)
(* level's size-of-interest range is labelled foreground and is assigned B *)
(* or another qualifying box whose volume is not larger than B's, whatever *)
(* the size of B.                                                          *)
(***************************************************************************)
C3_InsideBoxIsForeground ==
    ~center_sample =>
        \A i \in Processed : \A k \in Rows : \A g \in BoxesOf(i) :
            ( /\ AllPositive(FaceDistances(k, gt_instances[i].gt_boxes[g]))
              /\ InLevelRange(k, g, i) ) =>
                LET b == AssignedBox(i, k) IN
                /\ labels[i][k] # NUM_CLASSES
                /\ b \in BoxesOf(i)
                /\ Qualifies(i, k, b)
                /\ Volume(gt_instances[i].gt_boxes[b])
                      <= Volume(gt_instances[i].gt_boxes[g])

(***************************************************************************)
(* C4: an image without ground-truth boxes never raises, with or without   *)
(* center sampling and with or without a bitmask; all its locations get    *)
(* label NUM_CLASSES, the zero regression target and index -1; and the     *)
(* targets of the other images are those of the batch without that image.  *)
(***************************************************************************)
RECURSIVE LoopOver(_, _)
LoopOver(ims, offset) ==
    IF ims = <<>> THEN <<>>
    ELSE LET im == Head(ims)
             t  == IF Len(im.gt_boxes) = 0 THEN NoGtTargets
                   ELSE TargetsPerIm(
                            im,
                            IF center_sample
                            THEN get_sample_region(im, cfg.FPN_STRIDES,
                                                   cfg.POS_RADIUS).mask
                            ELSE IsInBoxesPlain(im),
                            IsCaredInTheLevel(im, LocToSizeRange(sizes_of_interest)),
                            offset)
         IN <<t>> \o LoopOver(Tail(ims), offset + Len(im.gt_boxes))

Without(s, i) == SubSeq(s, 1, i - 1) \o SubSeq(s, i + 1, Len(s))

ImageFirst ==
    [i \in Processed |-> [labels |-> labels[i], reg_targets |-> reg_targets[i],
                          target_inds |-> target_inds[i]]]

C4_EmptyImageIsBackground ==
    /\ pc = "error" => Len(gt_instances[im_i + 1].gt_boxes) > 0
    /\ \A i \in Processed :
          Len(gt_instances[i].gt_boxes) = 0 =>
             /\ \A k \in Rows : /\ labels[i][k] = NUM_CLASSES
                                /\ reg_targets[i][k] = Zeros6
                                /\ target_inds[i][k] = -1
             /\ Without(ImageFirst, i)
                   = LoopOver(Without(SubSeq(gt_instances, 1, Len(labels)), i), 0)

C4_Witness ==
    /\ pc = "done"
    /\ center_sample
    /\ Len(gt_instances) = 2
    /\ Len(gt_instances[1].gt_boxes) = 0
    /\ ~gt_instances[1].has_bitmasks
    /\ Len(gt_instances[2].gt_boxes) = 2
    /\ \E k \in Rows : labels[2][k] # NUM_CLASSES

(***************************************************************************)
(* C5: the regression target _get_ground_truth returns for a foreground    *)
(* location of level l assigned to box (x1,y1,z1,x2,y2,z2) is              *)
(* (x-x1, y-y1, z-z1, x2-x, y2-y, z2-z) / strides[l].                      *)
(***************************************************************************)
C5_RegressionTargets ==
    pc = "done" =>
        \A l \in DOMAIN training_targets.labels :
            \A p \in DOMAIN training_targets.labels[l] :
                training_targets.labels[l][p] # NUM_CLASSES =>
                    LET i   == training_targets.im_inds[l][p] + 1
                        loc == training_targets.locations[l][p]
                        g   == training_targets.target_inds[l][p] - OffsetOf(i) + 1
                        box == gt_instances[i].gt_boxes[g]
                        r   == training_targets.reg_targets[l][p]
                        d   == << loc[1] - box[1], loc[2] - box[2], loc[3] - box[3],
                                  box[4] - loc[1], box[5] - loc[2], box[6] - loc[3] >>
                    IN \A a \in 1..6 :
                          /\ r[a][2] > 0
                          /\ r[a][1] * cfg.FPN_STRIDES[l] = d[a] * r[a][2]

C5_Witness ==
    /\ pc = "done"
    /\ cfg.FPN_STRIDES = <<2, 4>>
    /\ \E p \in DOMAIN training_targets.labels[1] :
          /\ training_targets.labels[1][p] # NUM_CLASSES
          /\ training_targets.reg_targets[1][p]
                = << <<1, 2>>, <<1, 2>>, <<1, 2>>, <<3, 2>>, <<3, 2>>, <<3, 2>> >>
    /\ \E p \in DOMAIN training_targets.labels[2] :
          /\ training_targets.labels[2][p] # NUM_CLASSES
          /\ training_targets.im_inds[2][p] = 1
          /\ training_targets.reg_targets[2][p][4] = <<249, 2>>

(***************************************************************************)
(* C6: a location of level l is size-eligible for a box iff the largest of *)
(* its six face distances is at least the level's lower bound and at most  *)
(* its upper bound; the ranges follow the configured sizes in level order, *)
(* each lower bound is the previous level's upper bound, the bounds        *)
(* increase with the level and the last level has no upper bound.          *)
(***************************************************************************)
NumLevels == Len(LOCATIONS)

C6_SizeEligibility ==
    /\ Len(sizes_of_interest) = NumLevels
    /\ \A l \in 1..(NumLevels - 1) :
          /\ sizes_of_interest[l][2] = cfg.SIZES_OF_INTEREST[l]
          /\ sizes_of_interest[l + 1][1] = sizes_of_interest[l][2]
          /\ sizes_of_interest[l][1] < sizes_of_interest[l + 1][1]
          /\ sizes_of_interest[l][1] < sizes_of_interest[l][2]
    /\ locals.im # 0 =>
          \A k \in Rows : \A g \in BoxesOf(locals.im) :
              LET l == LevelOfRow(k)
                  m == MaxDistance(FaceDistances(k, gt_instances[locals.im].gt_boxes[g]))
              IN locals.is_cared_in_the_level[k][g]
                    <=> /\ sizes_of_interest[l][1] <= m
                        /\ l < NumLevels => m <= cfg.SIZES_OF_INTEREST[l]

C6_Witness ==
    /\ locals.im # 0
    /\ \E k \in Rows : \E g \in BoxesOf(locals.im) :
          /\ LevelOfRow(k) = 1
          /\ locals.is_cared_in_the_level[k][g]
          /\ MaxDistance(FaceDistances(k, gt_instances[locals.im].gt_boxes[g]))
                = cfg.SIZES_OF_INTEREST[1]
    /\ \E k \in Rows : \E g \in BoxesOf(locals.im) :
          /\ LevelOfRow(k) = NumLevels
          /\ locals.is_cared_in_the_level[k][g]
          /\ MaxDistance(FaceDistances(k, gt_instances[locals.im].gt_boxes[g])) > 400
    /\ \E k \in Rows : \E g \in BoxesOf(locals.im) :
          ~locals.is_cared_in_the_level[k][g]

(***************************************************************************)
(* C7: with center sampling enabled, a batch holding an image that has     *)
(* ground-truth boxes but no full-resolution bitmask never yields targets: *)
(* the loop stops at that image with an exception, and no targets are      *)
(* produced for it from the geometric box centre.                          *)
(***************************************************************************)
NeedsBitmask(i) ==
    Len(gt_instances[i].gt_boxes) > 0 /\ ~gt_instances[i].has_bitmasks

C7_MissingBitmaskRaises ==
    /\ (center_sample /\ \E i \in DOMAIN gt_instances : NeedsBitmask(i)) =>
          /\ pc # "done"
          /\ training_targets = NoTargets
          /\ \A i \in Processed : ~NeedsBitmask(i)
    /\ pc = "error" => center_sample /\ NeedsBitmask(im_i + 1)
    /\ (pc = "loop" /\ center_sample /\ im_i < Len(gt_instances)
           /\ NeedsBitmask(im_i + 1)) =>
          ENABLED ComputeTargetsRaise /\ ~ENABLED ComputeTargetsPerIm

C7_Witness ==
    /\ pc = "error"
    /\ im_i = 1
    /\ Len(gt_instances[1].gt_boxes) > 0
    /\ gt_instances[1].has_bitmasks
    /\ NeedsBitmask(2)

(***************************************************************************)
(* C8: with center sampling enabled and a bitmask present, a location of   *)
(* level l is a candidate for a box iff on each axis its coordinate lies   *)
(* strictly inside [max(box_min, c - radius*strides[l]), min(box_max,      *)
(* c + radius*strides[l])], c the mass centre of the box's bitmask.        *)
(***************************************************************************)
C8_CenterWindowCandidates ==
    (center_sample /\ locals.im # 0) =>
        \A k \in Rows : \A g \in BoxesOf(locals.im) :
            locals.is_in_boxes[k][g]
               <=> InCenterWindow(k, gt_instances[locals.im].gt_boxes[g],
                                  gt_instances[locals.im].gt_bitmasks_full[g])

(***************************************************************************)
(* Vocabulary of the loss properties.  A quotient of the state is in       *)
(* lowest terms, so it is compared with the expected quotient reduced.     *)
(***************************************************************************)
QEq(a, b) == a[1] * b[2] = b[1] * a[2]

ForegroundCount(lab) == Cardinality({p \in DOMAIN lab : lab[p] # NUM_CLASSES})

\* the quotient total / W, or floor when that is larger
MeanFlooredAt(total, W, floor) ==
    IF floor[1] * total[2] * W > total[1] * floor[2] THEN floor
    ELSE <<total[1], total[2] * W>>

RECURSIVE FgTotal(_)
FgTotal(ws) ==
    IF ws = <<>> THEN 0
    ELSE ForegroundCount(Head(ws).labels) + FgTotal(Tail(ws))

RECURSIVE SampleTotal(_)
SampleTotal(ws) ==
    IF ws = <<>> THEN 0 ELSE Len(Head(ws).labels) + SampleTotal(Tail(ws))

RECURSIVE CtrTotal(_)
CtrTotal(ws) ==
    IF ws = <<>> THEN <<0, 1>>
    ELSE LET h == Head(ws).ctrness_targets_sum
             t == CtrTotal(Tail(ws))
         IN <<h[1] * t[2] + t[1] * h[2], h[2] * t[2]>>

\* N of a call: the foreground count, averaged over the workers of the
\* call (the count itself with one worker), floored at 1
CallN(ws) == MeanFlooredAt(<<FgTotal(ws), 1>>, Len(ws), <<1, 1>>)

ClsComputed(l) == l.status \in {"ok", "NotImplementedError"}

(***************************************************************************)
(* C9: moving_num_fg starts at 100.  A call in "moving_fg" mode sets       *)
(* moving_num_fg to 0.9 * moving_num_fg + 0.1 * N and divides the summed   *)
(* focal loss by the new value; in "fg" mode the divisor is N, in "all"    *)
(* mode the number of locations floored at 1; and in "fg" and "all" modes  *)
(* moving_num_fg keeps its initial value through every call.               *)
(***************************************************************************)
C9_ClsNormalizerModes ==
    /\ [](n_calls = 0 => moving_num_fg = <<100, 1>>)
    /\ [](loss_cfg.loss_normalizer_cls # "moving_fg" => moving_num_fg = <<100, 1>>)
    /\ [][ (n_calls' = n_calls + 1 /\ ClsComputed(last')) =>
             LET N    == CallN(last'.workers)
                 mode == loss_cfg.loss_normalizer_cls
             IN /\ mode = "moving_fg" =>
                     /\ moving_num_fg'
                          = Quot(9 * moving_num_fg[1] * N[2] + N[1] * moving_num_fg[2],
                                 10 * moving_num_fg[2] * N[2])
                     /\ last'.cls_normalizer = moving_num_fg'
                /\ mode = "fg" =>
                     /\ moving_num_fg' = moving_num_fg
                     /\ QEq(last'.cls_normalizer, N)
                /\ mode = "all" =>
                     /\ moving_num_fg' = moving_num_fg
                     /\ QEq(last'.cls_normalizer,
                            MeanFlooredAt(<<SampleTotal(last'.workers), 1>>,
                                          world_size, <<1, 1>>))
                /\ last'.status = "ok" =>
                     last'.losses.loss_fcos_cls
                        = Quot(last'.workers[1].class_loss[1] * loss_cfg.loss_weight_cls
                                  * last'.cls_normalizer[2],
                               last'.workers[1].class_loss[2] * last'.cls_normalizer[1])
         ]_vars

\* 100 -> 0.9*100 + 0.1*2 = 90.2 -> 0.9*90.2 + 0.1*1 = 81.28
C9_Witness ==
    /\ loss_cfg.loss_normalizer_cls = "moving_fg"
    /\ world_size = 1
    /\ n_calls = 2
    /\ last.status = "ok"
    /\ moving_num_fg = <<2032, 25>>
    /\ last.cls_normalizer = <<2032, 25>>

QuotientOf(loss, numerator, divisor) ==
    loss = Quot(numerator[1] * divisor[2], numerator[2] * divisor[1])

ShapesAgree(l) == l.reg_pred_shape = RegTargetsShape(l.workers)

C11_QualityModes ==
    (last.status # "none" /\ ShapesAgree(last)) =>
        CASE loss_cfg.box_quality = "ctrness" ->
                 /\ last.status = "ok"
                 /\ DOMAIN last.losses =
                        {"loss_fcos_cls", "loss_fcos_loc", "loss_fcos_ctr"}
          [] loss_cfg.box_quality = "iou" ->
                 /\ last.status = "ok"
                 /\ DOMAIN last.losses =
                        {"loss_fcos_cls", "loss_fcos_loc", "loss_fcos_iou"}
          [] OTHER ->
                 /\ last.status = "NotImplementedError"
                 /\ last.losses = NoLosses

C11_Witness ==
    /\ loss_cfg.box_quality = "giou"
    /\ last.status = "NotImplementedError"
    /\ ShapesAgree(last)
    /\ Len(last.workers[1].labels) = 3
    /\ last.losses = NoLosses

(***************************************************************************)
(* C13: a fcos_losses call whose regression predictions and regression     *)
(* targets differ in shape fails on the assertion, no loss term is         *)
(* computed and moving_num_fg keeps the value it had before the call.      *)
(***************************************************************************)
C13_ShapeMismatchRejected ==
    /\ [](  (last.status # "none" /\ ~ShapesAgree(last)) =>
              /\ last.status = "AssertionError"
              /\ last.losses = NoLosses
              /\ last.cls_normalizer = <<0, 1>>
              /\ last.num_pos_avg = <<0, 1>>
              /\ last.loss_denorm = <<0, 1>>)
    /\ [][ (n_calls' # n_calls /\ ~ShapesAgree(last')) =>
              /\ last'.status = "AssertionError"
              /\ moving_num_fg' = moving_num_fg ]_vars

C13_Witness ==
    /\ loss_cfg.loss_normalizer_cls = "moving_fg"
    /\ n_calls = 2
    /\ last.status = "AssertionError"
    /\ last.reg_pred_shape = <<4, 6>>
    /\ Len(last.workers[1].labels) = 3
    /\ moving_num_fg = <<901, 10>>

(***************************************************************************)
(* Vocabulary of the claims on predict_proposals.                          *)
(***************************************************************************)
LevelsDone == DOMAIN sampled_boxes

Images == DOMAIN preds

\* the position on level l of the location with coordinates loc
LocIndex(l, loc) == CHOOSE k \in DOMAIN LOCATIONS[l] : LOCATIONS[l][k] = loc

\* the (location, class) pair a proposal comes from
PairOf(d) == <<LocIndex(d.fpn_levels + 1, d.locations), d.pred_classes>>

\* sigmoid(classification) * sigmoid(quality) of a pair, as n / m
ProductNum(p, c) == p.logits[c + 1].ln[1] * p.ctrness.ln[1]
ProductDen(p, c) ==
    (p.logits[c + 1].ln[1] + p.logits[c + 1].ln[2])
        * (p.ctrness.ln[1] + p.ctrness.ln[2])

\* the pair's value at the candidate test exceeds the quotient t
AboveThreshold(p, c, t) ==
    IF icfg.THRESH_WITH_CTR
    THEN ProductNum(p, c) * t[2] > t[1] * ProductDen(p, c)
    ELSE p.logits[c + 1].ln[1] * t[2]
             > t[1] * (p.logits[c + 1].ln[1] + p.logits[c + 1].ln[2])

(***************************************************************************)
(* C14: the score of every proposal forward_for_single_feature_map returns *)
(* is sqrt(sigmoid(classification) * sigmoid(quality)) whatever            *)
(* thresh_with_ctr is; a (location, class) pair is a candidate iff that    *)
(* product exceeds pre_nms_thresh when thresh_with_ctr is set, and iff     *)
(* sigmoid(classification) alone exceeds it when it is not; every proposal *)
(* comes from a candidate.                                                 *)
(***************************************************************************)
C14_ScoreIsProduct ==
    \A l \in LevelsDone : \A i \in Images :
        /\ \A j \in DOMAIN sampled_boxes[l][i] :
              LET d == sampled_boxes[l][i][j]
                  p == preds[i][l][PairOf(d)[1]]
                  q == d.scores.sqrt_of
              IN /\ q[1] * ProductDen(p, d.pred_classes)
                        = q[2] * ProductNum(p, d.pred_classes)
                 /\ PairOf(d) \in candidate_inds[l][i]
        /\ \A k \in DOMAIN LOCATIONS[l] : \A c \in 0..(NUM_CLASSES - 1) :
              (<<k, c>> \in candidate_inds[l][i])
                  <=> AboveThreshold(preds[i][l][k], c, nms_self.pre_nms_thresh)

\* a proposal that passed on its classification alone: 3/4 > 1/5 while the
\* product 3/16 is below the threshold, and its score is sqrt(3/16)
C14_Witness ==
    /\ ~icfg.THRESH_WITH_CTR
    /\ ppc = "done"
    /\ nms_self.pre_nms_thresh = <<1, 5>>
    /\ \E l \in LevelsDone : \E i \in Images : \E j \in DOMAIN sampled_boxes[l][i] :
          /\ sampled_boxes[l][i][j].scores = [sqrt_of |-> <<3, 16>>]
          /\ preds[i][l][PairOf(sampled_boxes[l][i][j])[1]].logits[1] = [ln |-> <<3, 1>>]

(***************************************************************************)
(* C15: for every image and level the number of proposals is the smaller   *)
(* of the number of candidates and pre_nms_topk (no error with fewer       *)
(* candidates, or none), and no dropped candidate has a higher             *)
(* classification*quality product than a kept one.                         *)
(***************************************************************************)
KeptPairs(l, i) == {PairOf(sampled_boxes[l][i][j]) : j \in DOMAIN sampled_boxes[l][i]}

C15_PreNmsTopkIsClamp ==
    \A l \in LevelsDone : \A i \in Images :
        LET n == Cardinality(candidate_inds[l][i])
            k == nms_self.pre_nms_topk
        IN /\ Len(sampled_boxes[l][i]) = (IF n < k THEN n ELSE k)
           /\ Cardinality(KeptPairs(l, i)) = Len(sampled_boxes[l][i])
           /\ KeptPairs(l, i) \subseteq candidate_inds[l][i]
           /\ \A kept \in KeptPairs(l, i) :
              \A dropped \in candidate_inds[l][i] \ KeptPairs(l, i) :
                 ProductNum(preds[i][l][dropped[1]], dropped[2])
                        * ProductDen(preds[i][l][kept[1]], kept[2])
                    <= ProductNum(preds[i][l][kept[1]], kept[2])
                        * ProductDen(preds[i][l][dropped[1]], dropped[2])

\* both cases in one run: a level with more candidates than pre_nms_topk = 2
\* and a level with none
C15_Witness ==
    /\ ppc = "done"
    /\ nms_self.pre_nms_topk = 2
    /\ \E l \in LevelsDone : \E i \in Images :
          /\ Cardinality(candidate_inds[l][i]) = 3
          /\ Len(sampled_boxes[l][i]) = 2
    /\ \E l \in LevelsDone : \E i \in Images :
          /\ Cardinality(candidate_inds[l][i]) = 0
          /\ Len(sampled_boxes[l][i]) = 0

(***************************************************************************)
(* C16: for every proposal, decoded at its location from the stride-       *)
(* normalised regression r on a level of stride s, the regression target   *)
(* that target assignment derives from the decoded box at that location    *)
(* (the face distances divided by s) is r again.                           *)
(***************************************************************************)
C16_DecodeEncodeRoundTrip ==
    \A l \in LevelsDone : \A i \in Images : \A j \in DOMAIN sampled_boxes[l][i] :
        LET d == sampled_boxes[l][i][j]
            r == preds[i][l][PairOf(d)[1]].reg_pred
            box == d.pred_boxes
            distances == RegTargetsPerIm(d.locations, [a \in 1..6 |-> box[a][1]])
            level_first == [m \in 1..NumLevels |->
                               IF m = l THEN <<distances>> ELSE <<>>]
        IN /\ \A a \in 1..6 : box[a][2] = 1
           /\ NormalizeRegTargets(level_first, cfg.FPN_STRIDES)[l][1] = r

\* a proposal on a level of stride 2 whose regression has the fractions
\* -1/2, 1/2 and 1 and whose box starts right of the location
C16_Witness ==
    /\ cfg.FPN_STRIDES = <<2, 4>>
    /\ 1 \in LevelsDone
    /\ \E i \in Images : \E j \in DOMAIN sampled_boxes[1][i] :
          /\ sampled_boxes[1][i][j].locations = <<3, 2, 2>>
          /\ preds[i][1][2].reg_pred =
                 << <<-1, 2>>, <<1, 2>>, <<1, 2>>, <<1, 1>>, <<1, 2>>, <<1, 2>> >>
          /\ sampled_boxes[1][i][j].pred_boxes =
                 << <<4, 1>>, <<1, 1>>, <<1, 1>>, <<5, 1>>, <<3, 1>>, <<3, 1>> >>

(***************************************************************************)
(* C17: per image, with n proposals after NMS: when n > post_nms_topk > 0  *)
(* the result is exactly the proposals whose score is >= the               *)
(* post_nms_topk-th largest score, so it has at least post_nms_topk        *)
(* proposals and more only through proposals tied with that score;         *)
(* otherwise all n proposals are returned unchanged.                       *)
(***************************************************************************)
Selected == DOMAIN results

\* the k-th largest score of dets is the score of position j
IsKthLargest(dets, k, j) ==
    /\ Cardinality({o \in DOMAIN dets : ScoreLess(dets[j].scores, dets[o].scores)}) < k
    /\ Cardinality({o \in DOMAIN dets : ~ScoreLess(dets[o].scores, dets[j].scores)}) >= k

AsSet(seq) == {seq[j] : j \in DOMAIN seq}

C17_PostNmsTopkKeepsTies ==
    \A i \in Selected :
        LET n == Len(nms_out[i])
            k == nms_self.post_nms_topk
        IN IF n > k /\ k > 0
           THEN \E t \in DOMAIN nms_out[i] :
                   /\ IsKthLargest(nms_out[i], k, t)
                   /\ results[i] =
                          Pick(nms_out[i],
                               {j \in DOMAIN nms_out[i] :
                                   ~ScoreLess(nms_out[i][j].scores,
                                              nms_out[i][t].scores)})
                   /\ Len(results[i]) >= k
                   /\ Len(results[i]) - k <
                          Cardinality({j \in DOMAIN nms_out[i] :
                                          nms_out[i][j].scores = nms_out[i][t].scores})
           ELSE results[i] = nms_out[i]

\* an image with three proposals after NMS that keeps two under
\* post_nms_topk = 1, tied at the largest score, and drops the third
C17_Witness ==
    /\ ppc = "done"
    /\ nms_self.post_nms_topk = 1
    /\ \E i \in Selected :
          /\ Len(nms_out[i]) = 3
          /\ Len(results[i]) = 2
          /\ results[i][1].scores = results[i][2].scores
          /\ ScoreLess(nms_out[i][3].scores, results[i][2].scores)

(***************************************************************************)
(* C18: with ml_nms3d as its contract states, select_over_all_levels (NMS, *)
(* then the post-NMS cut) applied to its own result for an image returns   *)
(* the same set of proposals.                                              *)
(***************************************************************************)
C18_SelectIsIdempotent ==
    \A i \in Selected :
        \A again \in SelectPerImage(results[i], icfg.NMS_TH, nms_self.post_nms_topk) :
            AsSet(again.result) = AsSet(results[i])

\* an image where NMS suppressed a proposal and the cut dropped another
C18_Witness ==
    \E i \in Selected :
        /\ Len(nms_out[i]) < Len(Boxlists(i))
        /\ Len(results[i]) < Len(nms_out[i])
        /\ Len(results[i]) > 1


(***************************************************************************)
(* Claims about UInst3D.forward (SpecModel).                               *)
(***************************************************************************)
\* a forward call has been made and forward_last describes it
ForwardCalled == forward_last.status # "none"

BothCapsSet ==
    model_cfg.max_proposals # -1 /\ model_cfg.topk_proposals_per_im # -1

\* C12: with MAX_PROPOSALS and TOPK_PROPOSALS_PER_IM both set, every forward
\* call, in every mode, fails with a fatal error before the mask head is
\* invoked.
C12_BothCapsFatal ==
    (ForwardCalled /\ BothCapsSet)
        => /\ forward_last.status = "AssertionError"
           /\ ~forward_last.mask_head_invoked

\* C19: whenever postprocess returns, the mask after the upsampling by
\* factor = padded // mask size and the crop has exactly the unpadded size of
\* the image, and pred_masks has the requested output size with every voxel
\* 0 or 1.
C19_MaskSizeAfterCrop ==
    (ForwardCalled /\ "processed_results" \in DOMAIN forward_last
                   /\ forward_last.status = "ok")
        => \A i \in DOMAIN forward_last.processed_results :
              LET r == forward_last.processed_results[i] IN
              /\ r.cropped = forward_last.size
              /\ r.pred_masks = forward_last.output
              /\ r.values \subseteq {0, 1}

\* the voxels of a tensor of the given shape
Voxels(shape) ==
    (0..(shape[1] - 1)) \X (0..(shape[2] - 1)) \X (0..(shape[3] - 1))

FitsBatch(shape, im) == \A a \in 1..3 : shape[a] <= im[a]

\* C20: for every instance mask no larger than the padded batch size,
\* gt_bitmasks_full has exactly the padded batch size, equals the mask on the
\* original extent and is 0 on the padding, and voxel (i, j, k) of gt_bitmasks
\* is voxel (start + i*stride, start + j*stride, start + k*stride) of
\* gt_bitmasks_full with start = stride // 2.
C20_FullMaskBitmasks ==
    (ForwardCalled /\ ~model_cfg.boxinst_enabled)
        => \A i \in DOMAIN forward_last.gt_instances :
              LET g == forward_last.gts[i]
                  b == forward_last.gt_instances[i]
                  stride == model_cfg.mask_out_stride
                  start == stride \div 2
              IN (g.has_gt_masks /\ FitsBatch(g.shape, forward_last.size))
                    => \A k \in DOMAIN g.masks :
                          /\ b.gt_bitmasks_full[k].shape = forward_last.size
                          /\ b.gt_bitmasks_full[k].ones = g.masks[k]
                          /\ \A v \in Voxels(b.gt_bitmasks[k].shape) :
                                (v \in b.gt_bitmasks[k].ones)
                                   <=> (<<start + v[1] * stride,
                                          start + v[2] * stride,
                                          start + v[3] * stride>>
                                            \in b.gt_bitmasks_full[k].ones)


(***************************************************************************)
(* C25: target assignment reads the ground truth only: no step of          *)
(* _get_ground_truth / compute_targets_for_locations changes the boxes,    *)
(* the class labels or the bitmasks of any instance, also when locations   *)
(* are relabelled to the background sentinel.                              *)
(***************************************************************************)
C25_GroundTruthReadOnly == [][gt_instances' = gt_instances]_vars

\* the call is over and a location of an image with boxes was relabelled
C25_Witness ==
    /\ pc = "done"
    /\ \E i \in Processed :
          /\ Len(gt_instances[i].gt_boxes) > 0
          /\ \E k \in Rows : labels[i][k] = NUM_CLASSES
          /\ \E k \in Rows : labels[i][k] # NUM_CLASSES


(***************************************************************************)
(* C26: the image-first to level-first transposition is an order-keeping   *)
(* regrouping: with N images and n_l locations on level l, the target of   *)
(* (image i, level l, j-th location of the level) is at position           *)
(* i*n_l + j of the level-l output, for labels, reg_targets, target_inds,  *)
(* locations and im_inds; the level-l output has exactly N*n_l entries,    *)
(* im_inds there is i and fpn_levels is l.                                 *)
(***************************************************************************)
\* the row of the image-first tensors that holds location j of level l
RowOf(l, j) == SumSeq(SubSeq(NumLocList, 1, l - 1)) + j

C26_TransposeKeepsOrder ==
    pc = "done" =>
        LET N == Len(gt_instances) IN
        \A l \in DOMAIN LOCATIONS :
            LET n == Len(LOCATIONS[l]) IN
            /\ \A key \in {"labels", "reg_targets", "target_inds", "locations",
                           "im_inds", "fpn_levels"} :
                  Len(training_targets[key][l]) = N * n
            /\ \A i \in 0..(N - 1) : \A j \in 0..(n - 1) :
                  LET p == i * n + j + 1
                      k == RowOf(l, j + 1)
                  IN /\ training_targets.labels[l][p] = labels[i + 1][k]
                     /\ training_targets.target_inds[l][p] = target_inds[i + 1][k]
                     /\ \A a \in 1..6 :
                           training_targets.reg_targets[l][p][a]
                              = Quot(reg_targets[i + 1][k][a], cfg.FPN_STRIDES[l])
                     /\ training_targets.locations[l][p] = LOCATIONS[l][j + 1]
                     /\ training_targets.im_inds[l][p] = i
                     /\ training_targets.fpn_levels[l][p] = l - 1

\* two images whose targets differ have been regrouped
C26_Witness ==
    /\ pc = "done"
    /\ Len(gt_instances) = 2
    /\ labels[1] # labels[2]
    /\ target_inds[1] # target_inds[2]
    /\ reg_targets[1] # reg_targets[2]


(***************************************************************************)
(* C28: assigned-instance indices are global across the batch: every index *)
(* produced for image i with n_i instances lies in                         *)
(* [offset_i, offset_i + n_i), offset_i the number of instances of the     *)
(* images before it, or is -1 when the image has no boxes; locations of    *)
(* different images never share an index, and index - offset_i is the box  *)
(* the location's class and regression target come from.                   *)
(***************************************************************************)
C28_GlobalInstanceIndices ==
    \A i \in Processed :
        LET n == Len(gt_instances[i].gt_boxes) IN
        /\ \A k \in Rows :
              IF n = 0 THEN target_inds[i][k] = -1
              ELSE LET g == target_inds[i][k] - OffsetOf(i) IN
                   /\ 0 <= g /\ g < n
                   /\ reg_targets[i][k]
                         = FaceDistances(k, gt_instances[i].gt_boxes[g + 1])
                   /\ labels[i][k] # NUM_CLASSES
                         => labels[i][k] = gt_instances[i].gt_classes[g + 1]
        /\ \A h \in Processed : \A k, m \in Rows :
              (h # i /\ target_inds[i][k] # -1)
                 => target_inds[h][m] # target_inds[i][k]

\* two images with boxes: the second image's indices start past the first's
C28_Witness ==
    /\ pc = "done"
    /\ Len(gt_instances) = 2
    /\ Len(gt_instances[1].gt_boxes) = 1
    /\ Len(gt_instances[2].gt_boxes) = 1
    /\ \E k \in Rows : labels[2][k] # NUM_CLASSES /\ target_inds[2][k] = 1


(***************************************************************************)
(* C30: with center sampling enabled, when the mass centre of the first    *)
(* instance of an image has x-coordinate 0 (an empty bitmask included),    *)
(* get_sample_region reports no candidate for any box of the image and     *)
(* every location of the image is labelled background, also when another   *)
(* box of the image has locations within its center window.                *)
(***************************************************************************)
FirstCenterXIsZero(i) ==
    /\ Len(gt_instances[i].gt_boxes) > 0
    /\ gt_instances[i].has_bitmasks
    /\ SumCoord(gt_instances[i].gt_bitmasks_full[1], 1) = 0

C29_FailedCallAdvancesAverage ==
    [][ (n_calls' = n_calls + 1 /\ last'.status = "NotImplementedError"
            /\ loss_cfg.loss_normalizer_cls = "moving_fg") =>
           LET N == CallN(last'.workers) IN
           /\ moving_num_fg' # moving_num_fg
           /\ QEq(moving_num_fg',
                  <<9 * moving_num_fg[1] * N[2] + N[1] * moving_num_fg[2],
                    10 * moving_num_fg[2] * N[2]>>)
           /\ last'.cls_normalizer = moving_num_fg'
      ]_vars

\* two failed calls in "moving_fg" mode: 100 -> 90.2 -> 81.28
C29_Witness ==
    /\ loss_cfg.loss_normalizer_cls = "moving_fg"
    /\ loss_cfg.box_quality = "giou"
    /\ world_size = 1
    /\ n_calls = 2
    /\ last.status = "NotImplementedError"
    /\ moving_num_fg = <<2032, 25>>


(***************************************************************************)
(* C23: the moving foreground average is safe only under serialized        *)
(* forward passes.  When the fcos_losses calls on one object run one after *)
(* another, moving_num_fg after n calls is the n-fold exponential average  *)
(* of the n counts in call order.  When passes run unsynchronized, the     *)
(* read-modify-write can interleave and an update can be lost: the value   *)
(* is then the average of only some of the counts, in some order.          *)
(***************************************************************************)
Quiescent == \A t \in Threads : passes[t].pc = "idle"

\* 0.9 * m + 0.1 * N
AverageStep(m, N) == <<9 * m[1] * N[2] + N[1] * m[2], 10 * m[2] * N[2]>>

RECURSIVE FoldAverage(_, _)
FoldAverage(m, counts) ==
    IF counts = <<>> THEN m
    ELSE FoldAverage(AverageStep(m, Head(counts)), Tail(counts))

\* the sequences of distinct positions of the log, the empty one only for
\* an empty log
Chains ==
    UNION { {c \in [1..n -> DOMAIN update_log] :
                \A a, b \in 1..n : c[a] = c[b] => a = b} :
            n \in (IF update_log = <<>> THEN 0 ELSE 1)..Len(update_log) }

C23_SerializedPassesKeepEveryUpdate ==
    (loss_cfg.loss_normalizer_cls = "moving_fg" /\ Quiescent /\ passes # <<>>) =>
        IF serialized
        THEN QEq(moving_num_fg, FoldAverage(<<100, 1>>, update_log))
        ELSE \E c \in Chains :
                QEq(moving_num_fg,
                    FoldAverage(<<100, 1>>, [a \in DOMAIN c |-> update_log[c[a]]]))

\* two unsynchronized passes have returned and only one update is in the
\* average
C23_Witness ==
    /\ passes # <<>>
    /\ ~serialized
    /\ Quiescent
    /\ loss_cfg.loss_normalizer_cls = "moving_fg"
    /\ Len(update_log) = 2
    /\ update_log[1] # update_log[2]
    /\ \E a \in 1..2 : QEq(moving_num_fg, AverageStep(<<100, 1>>, update_log[a]))


\* C24: for every batch of volumes, of equal or different spatial sizes,
\* from_tensors as called by forward succeeds, returns one tensor in which
\* every volume is padded to a common spatial shape, and keeps each volume's
\* own (depth, height, width) in image_sizes, in batch order.
C24_FromTensorsPadsBatch ==
    ForwardCalled =>
        LET r == forward_last.images
            v == forward_last.volumes
        IN /\ r.status = "ok"
           /\ r.tensor[1] = Len(v)
           /\ r.image_sizes = v
           /\ \A i \in DOMAIN v : \A a \in 1..3 : r.tensor[a + 1] >= v[i][a]


\* the stride divides the size of the batch on every axis
StrideDivides == \A a \in 1..3 : forward_last.size[a] % model_cfg.mask_out_stride = 0

\* C21: in box-supervised mode add_bitmasks_from_boxes builds for every
\* ground-truth box a full-resolution volume of shape (im_s, im_h, im_w) whose
\* voxel is 1 iff it lies inside the box on all three axes, and a downsampled
\* volume that is the full one sampled at offset stride // 2 with step stride
\* and whose size times stride is the full size on every axis.
C21_BoxBitmasks ==
    (ForwardCalled /\ model_cfg.boxinst_enabled)
        => \A i \in DOMAIN forward_last.gt_instances :
              LET b == forward_last.gt_instances[i]
                  boxes == forward_last.gts[i].boxes
                  stride == model_cfg.mask_out_stride
                  start == stride \div 2
              IN b.has_bitmasks =>
                    /\ DOMAIN b.gt_bitmasks_full = DOMAIN boxes
                    /\ DOMAIN b.gt_bitmasks = DOMAIN boxes
                    /\ \A g \in DOMAIN boxes :
                          /\ b.gt_bitmasks_full[g].shape = forward_last.size
                          /\ \A v \in Voxels(forward_last.size) :
                                (v \in b.gt_bitmasks_full[g].ones)
                                   <=> \A a \in 1..3 : /\ boxes[g][a] <= v[a]
                                                       /\ v[a] <= boxes[g][a + 3]
                          /\ b.gt_bitmasks_full[g].ones \subseteq Voxels(forward_last.size)
                          /\ \A a \in 1..3 :
                                b.gt_bitmasks[g].shape[a] * stride = forward_last.size[a]
                          /\ \A v \in Voxels(b.gt_bitmasks[g].shape) :
                                (v \in b.gt_bitmasks[g].ones)
                                   <=> (<<start + v[1] * stride,
                                          start + v[2] * stride,
                                          start + v[3] * stride>>
                                            \in b.gt_bitmasks_full[g].ones)
                          /\ b.gt_bitmasks[g].ones \subseteq Voxels(b.gt_bitmasks[g].shape)

\* a batch of two images with three boxes, sampled at stride 2: one box
\* keeps a voxel of the downsampled volume, one keeps none
C21_Witness ==
    /\ ForwardCalled
    /\ model_cfg.boxinst_enabled
    /\ model_cfg.mask_out_stride = 2
    /\ forward_last.status = "ok"
    /\ Len(forward_last.gt_instances) = 2
    /\ forward_last.gt_instances[1].has_bitmasks
    /\ Len(forward_last.gt_instances[1].gt_bitmasks) = 2
    /\ forward_last.gt_instances[1].gt_bitmasks[1].ones = {<<0, 0, 0>>, <<1, 0, 0>>}
    /\ forward_last.gt_instances[1].gt_bitmasks[2].ones = {}
    /\ forward_last.gt_instances[2].gt_bitmasks_full[1].ones = Voxels(<<4, 4, 4>>)

\* C22: in box-supervised mode an image with zero ground-truth boxes is a
\* valid case of add_bitmasks_from_boxes: the call completes without error,
\* that image is left with empty bitmask sets and the other images of the
\* batch get their bitmasks.
C22_EmptyImageBoxBitmasks ==
    (ForwardCalled /\ model_cfg.boxinst_enabled /\ forward_last.gt_instances # <<>>
        /\ StrideDivides)
        => /\ forward_last.status # "RuntimeError"
           /\ \A i \in DOMAIN forward_last.gt_instances :
                 LET b == forward_last.gt_instances[i]
                     boxes == forward_last.gts[i].boxes
                 IN /\ b.has_bitmasks
                    /\ Len(b.gt_bitmasks) = Len(boxes)
                    /\ Len(b.gt_bitmasks_full) = Len(boxes)


(***************************************************************************)
(* C27: with TOPK_PROPOSALS_PER_IM = k (k # -1, MAX_PROPOSALS = -1),       *)
(* _forward_mask_heads_train keeps for each image and each ground-truth    *)
(* index g with a proposal exactly min(number of proposals of g,           *)
(* max(floor(k / number of distinct ground-truth indices of the image),    *)
(* 1)) proposals, those with the highest sigmoid(max class logit) *        *)
(* sigmoid(quality); so every such index keeps at least one and an image   *)
(* keeps at most max(k, number of distinct indices).                       *)
(***************************************************************************)
\* positions of seq that hold a proposal of image im and ground truth g
PositionsOf(seq, im, g) ==
    {j \in DOMAIN seq : seq[j].im_inds = im /\ seq[j].gt_inds = g}

GtIndsOf(seq, im) == {seq[j].gt_inds : j \in {p \in DOMAIN seq : seq[p].im_inds = im}}

\* sigmoid(max class logit) * sigmoid(quality) as a pair <<n, d>>
ScoreOf(q) ==
    LET c1 == q.logits_pred[1].ln
        c2 == q.logits_pred[2].ln
        top == IF c1[1] * c2[2] >= c2[1] * c1[2] THEN c1 ELSE c2
        ctr == q.ctrness_pred.ln
    IN <<top[1] * ctr[1], (top[1] + top[2]) * (ctr[1] + ctr[2])>>

TopkCapApplies ==
    /\ ForwardCalled
    /\ "pred_instances" \in DOMAIN forward_last
    /\ model_cfg.topk_proposals_per_im # -1
    /\ model_cfg.max_proposals = -1

C27_TopkPerGroundTruth ==
    TopkCapApplies =>
        LET k == model_cfg.topk_proposals_per_im
            all == forward_last.proposals
            kept == forward_last.pred_instances
        IN \A im \in 0..(Len(forward_last.gts) - 1) :
              LET gs == GtIndsOf(all, im)
                  quota == Max2(k \div Max2(Cardinality(gs), 1), 1)
              IN /\ GtIndsOf(kept, im) = gs
                 /\ \A g \in gs :
                       /\ Cardinality(PositionsOf(kept, im, g))
                             = Min2(Cardinality(PositionsOf(all, im, g)), quota)
                       /\ Cardinality(PositionsOf(kept, im, g)) >= 1
                       /\ \A j \in PositionsOf(kept, im, g) :
                             /\ \E p \in PositionsOf(all, im, g) : all[p] = kept[j]
                             /\ \A p \in PositionsOf(all, im, g) :
                                   (\A h \in DOMAIN kept : kept[h] # all[p])
                                      => ~QLess(ScoreOf(kept[j]), ScoreOf(all[p]))
                 /\ Cardinality({j \in DOMAIN kept : kept[j].im_inds = im})
                       <= Max2(k, Cardinality(gs))

\* k = 2: an image with one ground-truth index and three proposals keeps its
\* best two, the other image keeps its only proposal
C27_Witness ==
    /\ TopkCapApplies
    /\ forward_last.status = "ok"
    /\ model_cfg.topk_proposals_per_im = 2
    /\ Len(forward_last.gts) = 2
    /\ Cardinality(PositionsOf(forward_last.proposals, 1, 1)) = 3
    /\ Cardinality(PositionsOf(forward_last.pred_instances, 1, 1)) = 2
    /\ Cardinality(PositionsOf(forward_last.pred_instances, 0, 0)) = 1
    /\ Len(forward_last.pred_instances) = 3

====
